---- MODULE Spec2Model ----
(***************************************************************************)
(* A model of the MEG-OS (maystorm) kernel scheduler,                      *)
(* system/kernel/src/task/scheduler.rs.                                    *)
(*                                                                         *)
(* Processors are numbered 1..NumCpus (ProcessorIndex + 1).  Thread        *)
(* handles are the integers issued by ThreadHandle::next (NEXT_ID starts   *)
(* at 1), so the idle thread of processor p, created by                    *)
(* LocalScheduler::new in processor order, has handle p.  0 stands for     *)
(* None in the `retired` slot, as in LocalScheduler::_swap_retired.        *)
(*                                                                         *)
(* Every processor runs its own dispatch logic.  Code that the source      *)
(* runs with interrupts disabled is split at its accesses to shared        *)
(* atomics (attribute bits, sleep_counter, the run queues, the pools), so  *)
(* that the processors and the waker interleave between them.              *)
(*                                                                         *)
(* Spec is the whole scheduler, with the timer thread seen as the waker    *)
(* that delivers ThreadHandle::wake.  SpecDispatch is the dispatch path    *)
(* on main and sub cores with freezing and the statistics thread.          *)
(* SpecIrqlCalls is raise_irql and lower_irql called with every level.     *)
(* SpecIrql is Irql::raise from before SCHEDULER is installed.  SpecTimer  *)
(* is _scheduler_thread with its queue and its list of events.  SpecSleep  *)
(* is Timer::sleep against that thread and its clock.  SpecStatistics is   *)
(* the state rule of _statistics_thread.  SpecJoin is FnSpawner::spawn and *)
(* JoinHandle::join.  SpecRoundRobin is the Normal queue served by one     *)
(* main core.  SpecFifo is reschedule with its dequeue and its context     *)
(* switch as two steps.  SpecReaped is wake and join on handles that have  *)
(* no record.  SpecRealtime is the Realtime queue filled up to its         *)
(* capacity.  SpecPrint is the %CPU column of the statistics printers and  *)
(* SpecThreadStatus their STATE column.  SpecPreempt is round robin with   *)
(* Realtime threads arriving.  SpecQuantum counts the calls of             *)
(* Quantum::consume.  SpecSpawn is spawn_thread with every SpawnOption.    *)
(* SpecTimerFair is SpecTimer with the timer thread, reschedule and the    *)
(* clock taking their steps fairly.  SpecSleepFull is Timer::sleep on one  *)
(* processor with timer_queue filled to its capacity by other callers.     *)
(* SpecSleepWake is one Timer::sleep of the System thread against the one  *)
(* wake of its timer event.  SpecLoad is _statistics_thread turning the    *)
(* raw counters of the threads into loads.                                 *)
(***************************************************************************)
EXTENDS Integers, Sequences, FiniteSets, TLC

(* ------------------------------ bounds -------------------------------- *)
\* number of active processors (System::current_device().num_of_active_cpus())
NumCpus == 2
\* number of threads spawned after the "System" thread
MaxSpawn == 1
\* timer events one thread may have registered and not yet fired
MaxTimerEvents == 2
\* timer interrupts that may shorten one thread's quantum before it is reset
MaxTicks == 1
\* Irql::raise calls one thread may have nested inside each other
MaxNest == 2
\* timer events given to TimerEvent::schedule in the timer thread's model
MaxEvents == 3
\* the last value of the clock in the timer thread's model
MaxNow == 3
\* signals sem_timer may hold unconsumed
MaxSignals == 2
\* how far on each side of a threshold the sampled loads spread
SampleWindow == 3
\* threads the System thread spawns beyond MaxSpawn where only it spawns
MaxWorkers == 2
\* calls of Quantum::consume counted on one thread's quantum
MaxConsumeCalls == 51
\* Realtime threads spawned where the Realtime queue is filled
MaxRealtimeThreads == 64
\* the largest load (per mille) given to the statistics printers
MaxPrintedLoad == 2100

(* ------------------------- program constants -------------------------- *)
\* enum Priority
Priority_Idle == 0
Priority_Low == 1
Priority_Normal == 2
Priority_High == 3
Priority_Realtime == 4
\* enum Irql
Irql_Passive == 0
Irql_Apc == 1
Irql_Dispatch == 2
Irql_Device == 3
Irql_IPI == 4
Irql_High == 5
\* const THRESHOLD_ENTER_MAX / THRESHOLD_LEAVE_MAX
THRESHOLD_ENTER_MAX == 950
THRESHOLD_LEAVE_MAX == 666
\* Scheduler::start: queue capacities
SIZE_OF_SUB_QUEUE == 63
SIZE_OF_MAIN_QUEUE == 255
\* Scheduler::start: ConcurrentFifo::with_capacity(100) for timer_queue
TIMER_QUEUE_CAPACITY == 100

None == 0
QUEUED == "QUEUED"
ZOMBIE == "ZOMBIE"

Cpus == 1..NumCpus
\* the last handle SpawnOption::start / spawn may issue, and the last any spawn may
MaxSpawnedHandle == NumCpus + 1 + MaxSpawn
MaxHandle == MaxSpawnedHandle + MaxWorkers
Handles == 1..MaxHandle
MaxPid == 1 + MaxSpawn
Pids == 0..MaxPid
Priorities == Priority_Idle..Priority_Realtime
EventIds == 1..MaxEvents
Irqls == Irql_Passive..Irql_High

VARIABLES
    scheduler_state,  \* SCHEDULER_STATE
    is_frozen,        \* Scheduler.is_frozen
    usage_total,      \* Scheduler.usage_total
    queue_realtime,   \* Scheduler.queue_realtime
    queue_urgent,     \* Scheduler.queue_urgent
    queue_normal,     \* Scheduler.queue_normal
    current,          \* LocalScheduler.current, per processor
    retired,          \* LocalScheduler.retired, per processor (0 = None)
    irql,             \* LocalScheduler.irql, per processor
    cpc,              \* per processor: where it stands inside a scheduler operation
    retire_arg,       \* per processor: the handle Scheduler::retire is working on
    thread_pool,      \* THREAD_POOL: the handles that have a record
    next_id,          \* ThreadHandle::next::NEXT_ID
    priority,         \* ThreadContextData.priority
    attribute,        \* ThreadContextData.attribute
    sleep_counter,    \* ThreadContextData.sleep_counter
    quantum,          \* ThreadContextData.quantum.current
    pid,              \* ThreadContextData.pid
    sem,              \* ThreadContextData.sem (signals given)
    tpc,              \* per thread: where its own code stands
    saved_irql,       \* per thread: old_irql held on its stack in _switch_context
    process_pool,     \* PROCESS_POOL: the pids that have a record
    next_pid,         \* ProcessContextData::next_pid::NEXT_PID
    n_threads,        \* ProcessContextData.n_threads
    process_priority, \* ProcessContextData.priority
    psem,             \* ProcessContextData.sem (signals given)
    parent,           \* ProcessContextData.parent
    timer_events,     \* per thread: its OneShot timer events registered, not yet fired
    core_type,        \* per processor: ProcessorCoreType, given by the boot layer
    waker,            \* the ThreadHandle::wake call in progress
    fault,            \* the panic that stopped the kernel, or "none"
    installed,        \* SCHEDULER.is_some()
    irql_frames,      \* per thread: its Irql::raise calls that have not returned
    irql_ret,         \* per processor: what raise_irql returned to its direct caller
    now,              \* TimerSource::measure()
    timer_queue,      \* Scheduler.timer_queue
    events,           \* _scheduler_thread: the Vec `events`
    next_timer,       \* Scheduler.next_timer
    sem_timer,        \* Scheduler.sem_timer (signals not yet consumed)
    tt_pc,            \* where _scheduler_thread stands in its loop
    async_sem,        \* per timer event: signals given to its AsyncSemaphore
    timer_deadline,   \* per thread: the deadline of `timer` in its Timer::sleep call
    fn_spawner,       \* per thread: where FnSpawner::_start_thread stands, "none" if not its
    closure_runs,     \* per thread: how many times its FnSpawner.start closure was called
    result,           \* per thread: the Option<T> in its FnSpawner.mutex
    arc_count,        \* per thread: the strong count of the Arc of its FnSpawner.mutex
    join_pc,          \* per thread: where the holder of its JoinHandle stands
    dequeued,         \* reschedule: the `next` handles dequeued and not yet switched to,
                      \* oldest first, each with its processor and its queue
    process_join,     \* per pid: where a caller of ProcessId::join on it stands
    printed_load,     \* the `load` (per mille) a statistics printer has read
    sb,               \* what the statistics printer has written for that load
    thread_load0,     \* per thread: ThreadContextData.load0, the raw busy ticks
    thread_load,      \* per thread: ThreadContextData.load, per mille
    usage_per_cpu,    \* Scheduler.usage, the load per processor
    process_load,     \* per process: ProcessContextData.load
    consume_calls     \* per thread: the calls of Quantum::consume on its quantum so far

vars == <<scheduler_state, is_frozen, usage_total, queue_realtime, queue_urgent,
          queue_normal, current, retired, irql, cpc, retire_arg, thread_pool,
          next_id, priority, attribute, sleep_counter, quantum, pid, sem, tpc,
          saved_irql, process_pool, next_pid, n_threads, process_priority, psem, parent,
          timer_events, core_type, waker, fault, installed, irql_frames, irql_ret,
          now, timer_queue, events, next_timer, sem_timer, tt_pc, async_sem,
          timer_deadline, fn_spawner, closure_runs, result, arc_count, join_pc,
          dequeued, process_join, printed_load, sb, thread_load0, thread_load,
          usage_per_cpu,
          process_load,
          consume_calls>>

sched_vars == <<scheduler_state, is_frozen, usage_total, core_type>>
queue_vars == <<queue_realtime, queue_urgent, queue_normal>>
local_vars == <<current, retired, irql, cpc, retire_arg>>
thread_vars == <<thread_pool, next_id, priority, attribute, sleep_counter, quantum,
                 pid, sem, tpc, saved_irql>>
process_vars == <<process_pool, next_pid, n_threads, process_priority, psem, parent>>
timer_vars == <<timer_events, waker>>
nest_vars == <<installed, irql_frames, irql_ret>>
load_vars == <<thread_load0, thread_load, usage_per_cpu, process_load>>
print_vars == <<printed_load, sb, load_vars>>
timer_thread_vars == <<now, timer_queue, events, next_timer, sem_timer, tt_pc, async_sem,
                       timer_deadline>>
join_vars == <<fn_spawner, closure_runs, result, arc_count, join_pc>>

NoWaker == [thread |-> None, step |-> "idle"]

(* ------------------------------ helpers ------------------------------- *)

\* LocalScheduler.idle
idle(p) == p

\* System::cpu(index).processor_type()
processor_type(p) == core_type[p]

num_of_performance_cpus == Cardinality({p \in Cpus : processor_type(p) = "Main"})

\* Scheduler::is_enabled
is_enabled == scheduler_state # "Disabled"

\* impl From<Priority> for Quantum
QuantumOf(prio) ==
    CASE prio = Priority_High -> 25
      [] prio = Priority_Normal -> 10
      [] prio = Priority_Low -> 5
      [] OTHER -> 1

\* Quantum::consume counting down to zero before it resets
consume_until_zero(t) ==
    IF quantum[t] > 0
    THEN [new |-> quantum[t] - 1, result |-> FALSE]
    ELSE [new |-> QuantumOf(priority[t]), result |-> TRUE]

\* Quantum::consume: the new counter and the result
consume(t) ==
    IF quantum[t] > 1
    THEN [new |-> quantum[t] - 1, result |-> FALSE]
    ELSE [new |-> QuantumOf(priority[t]), result |-> TRUE]

\* ThreadContextData::is_asleep
is_asleep(t) == sleep_counter[t] > 0

\* Scheduler::is_stalled_processor without its test of is_frozen
is_stalled_processor_ignores_frozen(p) ==
    scheduler_state # "FullThrottle" /\ processor_type(p) = "Sub"

\* Scheduler::is_stalled_processor
is_stalled_processor(p) ==
    \/ is_frozen
    \/ (scheduler_state # "FullThrottle" /\ processor_type(p) = "Sub")

\* _next_thread without its Realtime branch
_next_thread_skips_realtime(p) ==
    IF is_stalled_processor(p) THEN [from |-> "idle", next |-> idle(p)]
    ELSE IF queue_urgent # <<>> THEN [from |-> "urgent", next |-> Head(queue_urgent)]
    ELSE IF queue_normal # <<>> THEN [from |-> "normal", next |-> Head(queue_normal)]
    ELSE [from |-> "none", next |-> None]

\* Scheduler::_next_thread: the queue it takes from, and the thread
_next_thread(p) ==
    IF is_stalled_processor(p) THEN [from |-> "idle", next |-> idle(p)]
    ELSE IF queue_realtime # <<>> THEN [from |-> "realtime", next |-> Head(queue_realtime)]
    ELSE IF queue_urgent # <<>> THEN [from |-> "urgent", next |-> Head(queue_urgent)]
    ELSE IF queue_normal # <<>> THEN [from |-> "normal", next |-> Head(queue_normal)]
    ELSE [from |-> "none", next |-> None]

\* Scheduler::reschedule, lines 250-268, consulting queue_normal for every
\* outgoing priority below High
reschedule_pick_normal_below_high(p) ==
    LET cur == current[p]
        prio == priority[cur]
    IN  IF is_stalled_processor(p)
        THEN [from |-> "idle", next |-> idle(p), consumed |-> FALSE]
        ELSE IF queue_realtime # <<>>
        THEN [from |-> "realtime", next |-> Head(queue_realtime), consumed |-> FALSE]
        ELSE IF prio < Priority_High /\ queue_urgent # <<>>
        THEN [from |-> "urgent", next |-> Head(queue_urgent), consumed |-> FALSE]
        ELSE IF prio < Priority_High /\ queue_normal # <<>>
        THEN [from |-> "normal", next |-> Head(queue_normal), consumed |-> FALSE]
        ELSE IF consume(cur).result
        THEN [from |-> _next_thread(p).from, next |-> _next_thread(p).next, consumed |-> TRUE]
        ELSE [from |-> "none", next |-> None, consumed |-> TRUE]

\* Scheduler::reschedule, lines 250-268, without its test of
\* is_stalled_processor
reschedule_pick_ignores_stall(p) ==
    LET cur == current[p]
        prio == priority[cur]
    IN  IF queue_realtime # <<>>
        THEN [from |-> "realtime", next |-> Head(queue_realtime), consumed |-> FALSE]
        ELSE IF prio < Priority_High /\ queue_urgent # <<>>
        THEN [from |-> "urgent", next |-> Head(queue_urgent), consumed |-> FALSE]
        ELSE IF prio < Priority_Normal /\ queue_normal # <<>>
        THEN [from |-> "normal", next |-> Head(queue_normal), consumed |-> FALSE]
        ELSE IF consume(cur).result
        THEN [from |-> _next_thread(p).from, next |-> _next_thread(p).next, consumed |-> TRUE]
        ELSE [from |-> "none", next |-> None, consumed |-> TRUE]

\* Scheduler::reschedule, lines 250-268: the branch taken by a non-Realtime
\* outgoing thread on a system that is not frozen
reschedule_pick(p) ==
    LET cur == current[p]
        prio == priority[cur]
    IN  IF is_stalled_processor(p)
        THEN [from |-> "idle", next |-> idle(p), consumed |-> FALSE]
        ELSE IF queue_realtime # <<>>
        THEN [from |-> "realtime", next |-> Head(queue_realtime), consumed |-> FALSE]
        ELSE IF prio < Priority_High /\ queue_urgent # <<>>
        THEN [from |-> "urgent", next |-> Head(queue_urgent), consumed |-> FALSE]
        ELSE IF prio < Priority_Normal /\ queue_normal # <<>>
        THEN [from |-> "normal", next |-> Head(queue_normal), consumed |-> FALSE]
        ELSE IF consume(cur).result
        THEN [from |-> _next_thread(p).from, next |-> _next_thread(p).next, consumed |-> TRUE]
        ELSE [from |-> "none", next |-> None, consumed |-> TRUE]

\* ThreadQueue::dequeue taking the youngest entry of the queue a pick names
Dequeue_from_tail(from) ==
    /\ queue_realtime' = IF from = "realtime"
                         THEN SubSeq(queue_realtime, 1, Len(queue_realtime) - 1)
                         ELSE queue_realtime
    /\ queue_urgent' = IF from = "urgent"
                       THEN SubSeq(queue_urgent, 1, Len(queue_urgent) - 1)
                       ELSE queue_urgent
    /\ queue_normal' = IF from = "normal"
                       THEN SubSeq(queue_normal, 1, Len(queue_normal) - 1)
                       ELSE queue_normal

\* ThreadQueue::dequeue on the queue a pick names
Dequeue(from) ==
    /\ queue_realtime' = IF from = "realtime" THEN Tail(queue_realtime) ELSE queue_realtime
    /\ queue_urgent' = IF from = "urgent" THEN Tail(queue_urgent) ELSE queue_urgent
    /\ queue_normal' = IF from = "normal" THEN Tail(queue_normal) ELSE queue_normal

\* Scheduler::_enqueue: the queue a priority goes to
QueueOf(prio) ==
    CASE prio = Priority_Realtime -> "realtime"
      [] prio \in {Priority_High, Priority_Normal, Priority_Low} -> "normal"
      [] OTHER -> "unreachable"

\* ConcurrentFifo::with_capacity for each run queue
CapacityOf(q) == IF q = "normal" THEN SIZE_OF_MAIN_QUEUE ELSE SIZE_OF_SUB_QUEUE

QueueNamed(q) == IF q = "realtime" THEN queue_realtime ELSE queue_normal

\* the panic of Scheduler::_enqueue(t), or "none"
EnqueueFault(t) ==
    IF t \notin thread_pool THEN "unwrap_none"
    ELSE IF QueueOf(priority[t]) = "unreachable" THEN "enqueue_unreachable"
    ELSE IF Len(QueueNamed(QueueOf(priority[t]))) >= CapacityOf(QueueOf(priority[t]))
    THEN "queue_full"
    ELSE "none"

\* Scheduler::_enqueue(t) putting the handle at the head of its queue
Enqueue_at_head(t) ==
    /\ queue_realtime' = IF QueueOf(priority[t]) = "realtime"
                         THEN <<t>> \o queue_realtime ELSE queue_realtime
    /\ queue_normal' = IF QueueOf(priority[t]) = "normal"
                       THEN <<t>> \o queue_normal ELSE queue_normal
    /\ queue_urgent' = queue_urgent

\* Scheduler::_enqueue(t), when it does not panic
Enqueue(t) ==
    /\ queue_realtime' = IF QueueOf(priority[t]) = "realtime"
                         THEN Append(queue_realtime, t) ELSE queue_realtime
    /\ queue_normal' = IF QueueOf(priority[t]) = "normal"
                       THEN Append(queue_normal, t) ELSE queue_normal
    /\ queue_urgent' = queue_urgent

\* retire without its test for the Idle priority
RetireDecision_ignores_idle(t) ==
    IF ZOMBIE \in attribute[t] THEN "remove"
    ELSE IF is_asleep(t) THEN "asleep"
    ELSE "enqueue"

\* Scheduler::retire after it cleared QUEUED: what it does with the thread
RetireDecision(t) ==
    IF priority[t] = Priority_Idle THEN "return"
    ELSE IF ZOMBIE \in attribute[t] THEN "remove"
    ELSE IF is_asleep(t) THEN "asleep"
    ELSE "enqueue"

\* Scheduler::add: the early return
AddReturnsEarly(t) == priority[t] = Priority_Idle \/ ZOMBIE \in attribute[t]

\* raise_irql refusing the level the processor is already at
RaiseAllowed_strict(old_irql, new_irql) == old_irql < new_irql

\* LocalScheduler::raise_irql: the check that does not panic
RaiseAllowed(old_irql, new_irql) == ~(old_irql > new_irql)

\* LocalScheduler::lower_irql: the check that does not panic
LowerAllowed(old_irql, new_irql) == ~(old_irql < new_irql)

\* the hysteresis entering FullThrottle at the threshold itself
StateAfterSample_enters_at_threshold(state, usage) ==
    CASE state = "Normal" ->
            IF usage >= (num_of_performance_cpus - 1) * 1000 + THRESHOLD_ENTER_MAX
            THEN "FullThrottle" ELSE "Normal"
      [] state = "FullThrottle" ->
            IF usage < num_of_performance_cpus * THRESHOLD_LEAVE_MAX
            THEN "Normal" ELSE "FullThrottle"
      [] OTHER -> state

\* Scheduler::_statistics_thread, lines 465-482: the state after a sample
StateAfterSample(state, usage) ==
    CASE state = "Normal" ->
            IF usage > (num_of_performance_cpus - 1) * 1000 + THRESHOLD_ENTER_MAX
            THEN "FullThrottle" ELSE "Normal"
      [] state = "FullThrottle" ->
            IF usage < num_of_performance_cpus * THRESHOLD_LEAVE_MAX
            THEN "Normal" ELSE "FullThrottle"
      [] OTHER -> state

(* ------------------------------- Init --------------------------------- *)
\* The scheduler Scheduler::start has built before it sets SCHEDULER_STATE:
\* the idle process (pid 0), one LocalScheduler and idle thread per processor.
InitSchedulerOn(H) ==
    /\ scheduler_state = "Disabled"
    /\ is_frozen = FALSE
    /\ usage_total = 0
    /\ queue_realtime = <<>>
    /\ queue_urgent = <<>>
    /\ queue_normal = <<>>
    /\ current = [p \in Cpus |-> idle(p)]
    /\ retired = [p \in Cpus |-> None]
    /\ irql = [p \in Cpus |-> Irql_Passive]
    /\ cpc = [p \in Cpus |-> "run"]
    /\ retire_arg = [p \in Cpus |-> None]
    /\ dequeued = <<>>
    /\ process_join = [q \in Pids |-> "none"]
    /\ thread_pool = Cpus
    /\ next_id = NumCpus + 1
    /\ priority = [t \in H |-> Priority_Idle]
    /\ attribute = [t \in H |-> {}]
    /\ sleep_counter = [t \in H |-> 0]
    /\ quantum = [t \in H |-> 1]
    /\ pid = [t \in H |-> 0]
    /\ sem = [t \in H |-> 0]
    /\ tpc = [t \in H |-> IF t \in Cpus THEN "run" ELSE "absent"]
    /\ saved_irql = [t \in H |-> Irql_Passive]
    /\ process_pool = {0}
    /\ next_pid = 1
    /\ n_threads = [i \in Pids |-> 0]
    /\ process_priority = [i \in Pids |-> Priority_Idle]
    /\ psem = [i \in Pids |-> 0]
    /\ parent = [i \in Pids |-> 0]
    /\ timer_events = [t \in H |-> 0]
    /\ waker = NoWaker
    /\ fault = "none"

\* the same over the handles 1..MaxHandle
InitScheduler == InitSchedulerOn(Handles)

\* no Irql::raise call is in progress
InitNestOn(H) ==
    /\ irql_frames = [t \in H |-> <<>>]
    /\ irql_ret = [p \in Cpus |-> Irql_Passive]

\* the same over the handles 1..MaxHandle
InitNest == InitNestOn(Handles)

\* Scheduler::start, lines 125-127, and the entry of _scheduler_thread
InitTimerThreadOn(H) ==
    /\ now = 0
    /\ timer_queue = <<>>
    /\ events = <<>>
    /\ next_timer = 0
    /\ sem_timer = 0
    /\ tt_pc = "drain"
    /\ async_sem = [e \in EventIds |-> 0]
    /\ timer_deadline = [t \in H |-> 0]

\* the same over the handles 1..MaxHandle
InitTimerThread == InitTimerThreadOn(Handles)

\* no thread of FnSpawner and no JoinHandle yet
InitJoinOn(H) ==
    /\ fn_spawner = [t \in H |-> "none"]
    /\ closure_runs = [t \in H |-> 0]
    /\ result = [t \in H |-> "None"]
    /\ arc_count = [t \in H |-> 0]
    /\ join_pc = [t \in H |-> "none"]

\* the same over the handles 1..MaxHandle
InitJoin == InitJoinOn(Handles)

\* no thread has run and no sample has been taken
InitLoads ==
    /\ thread_load0 = [t \in Handles |-> 0]
    /\ thread_load = [t \in Handles |-> 0]
    /\ usage_per_cpu = 0
    /\ process_load = [i \in Pids |-> 0]

\* no statistics are being printed
InitPrint ==
    /\ printed_load = 0
    /\ sb = <<>>
    /\ InitLoads

\* no Quantum has been consumed
InitCalls == consume_calls = [t \in Handles |-> 0]

Init ==
    /\ InitScheduler
    /\ core_type = [p \in Cpus |-> "Main"]
    /\ installed = TRUE
    /\ InitNest
    /\ InitTimerThread
    /\ InitJoin
    /\ InitPrint
    /\ InitCalls

(* ------------------------- context switching -------------------------- *)

\* the panic of LocalScheduler::_switch_context(next) on processor p, or "none"
SwitchFault(p, next) ==
    IF ~RaiseAllowed(irql[p], Irql_Dispatch) THEN "IRQL_NOT_GREATER_OR_EQUAL"
    ELSE IF next \notin thread_pool THEN "unwrap_none"
    ELSE IF current[p] # next /\ retired[p] # None THEN "assert_retired_none"
    ELSE "none"

\* LocalScheduler::_switch_context without its comparison of the handles:
\* set_retired and the switch whatever `next` is
SwitchContext_always_switches(p, next, resume) ==
    LET cur == current[p] IN
    IF SwitchFault(p, next) # "none"
    THEN /\ fault' = SwitchFault(p, next)
         /\ UNCHANGED <<current, retired, irql, cpc, saved_irql, tpc>>
    ELSE /\ retired' = [retired EXCEPT ![p] = cur]
         /\ current' = [current EXCEPT ![p] = next]
         /\ irql' = [irql EXCEPT ![p] = Irql_Dispatch]
         /\ saved_irql' = [saved_irql EXCEPT ![cur] = irql[p]]
         /\ cpc' = [cpc EXCEPT ![p] = "after"]
         /\ tpc' = [tpc EXCEPT ![cur] = resume]
         /\ fault' = "none"

\* LocalScheduler::_switch_context up to the architecture switch: raise to
\* Dispatch, then either the fast path (next is current: lower again) or
\* set_retired(current), current := next, with old_irql left on the outgoing
\* thread's stack.  `resume` is where the outgoing thread's own code stands
\* when it runs again.
SwitchContext(p, next, resume) ==
    LET cur == current[p] IN
    IF SwitchFault(p, next) # "none"
    THEN /\ fault' = SwitchFault(p, next)
         /\ UNCHANGED <<current, retired, irql, cpc, saved_irql, tpc>>
    ELSE IF cur = next
    THEN /\ fault' = IF resume = "exit_dead" THEN "exit_unreachable" ELSE "none"
         /\ cpc' = [cpc EXCEPT ![p] = "run"]
         /\ tpc' = [tpc EXCEPT ![cur] = resume]
         /\ UNCHANGED <<current, retired, irql, saved_irql>>
    ELSE /\ retired' = [retired EXCEPT ![p] = cur]
         /\ current' = [current EXCEPT ![p] = next]
         /\ irql' = [irql EXCEPT ![p] = Irql_Dispatch]
         /\ saved_irql' = [saved_irql EXCEPT ![cur] = irql[p]]
         /\ cpc' = [cpc EXCEPT ![p] = "after"]
         /\ tpc' = [tpc EXCEPT ![cur] = resume]
         /\ fault' = "none"

\* _switch_context_after lowering to Passive as setup_new_thread does
ResumeIrql_passive(t) == Irql_Passive

\* the level the resumed thread lowers to: Passive in setup_new_thread, the
\* old_irql of its own _switch_context call in _switch_context_after
ResumeIrql(t) == IF tpc[t] = "new" THEN Irql_Passive ELSE saved_irql[t]

\* the end of _switch_context_after / setup_new_thread without lower_irql
FinishSwitch_without_lower(p) ==
    LET t == current[p] IN
    /\ retire_arg' = [retire_arg EXCEPT ![p] = None]
    /\ irql' = irql
    /\ cpc' = [cpc EXCEPT ![p] = "run"]
    /\ tpc' = [tpc EXCEPT ![t] = IF tpc[t] = "new" THEN "run" ELSE tpc[t]]
    /\ fault' = IF tpc[t] = "exit_dead" THEN "exit_unreachable" ELSE "none"

\* the end of _switch_context_after / setup_new_thread on processor p:
\* lower_irql, then the resumed thread goes on with its own code
FinishSwitch(p) ==
    LET t == current[p] IN
    /\ retire_arg' = [retire_arg EXCEPT ![p] = None]
    /\ IF ~LowerAllowed(irql[p], ResumeIrql(t))
       THEN /\ fault' = "IRQL_NOT_LESS_OR_EQUAL"
            /\ UNCHANGED <<irql, cpc, tpc>>
       ELSE /\ irql' = [irql EXCEPT ![p] = ResumeIrql(t)]
            /\ cpc' = [cpc EXCEPT ![p] = "run"]
            /\ tpc' = [tpc EXCEPT ![t] = IF tpc[t] = "new" THEN "run" ELSE tpc[t]]
            /\ fault' = IF tpc[t] = "exit_dead" THEN "exit_unreachable" ELSE "none"

\* _switch_context_after reading the retired slot without emptying it
SwitchContextAfter_keeps_retired(p) ==
    /\ fault = "none" /\ cpc[p] = "after"
    /\ IF retired[p] = None \/ retired[p] \notin thread_pool
       THEN /\ fault' = "unwrap_none"
            /\ UNCHANGED <<retired, retire_arg, attribute, cpc>>
       ELSE /\ retire_arg' = [retire_arg EXCEPT ![p] = retired[p]]
            /\ retired' = retired
            /\ attribute' = [attribute EXCEPT ![retired[p]] = @ \ {QUEUED}]
            /\ cpc' = [cpc EXCEPT ![p] = "retire_check"]
            /\ fault' = "none"
    /\ UNCHANGED <<sched_vars, queue_vars, current, irql, thread_pool, next_id, priority,
                   sleep_counter, quantum, pid, sem, tpc, saved_irql, process_vars,
                   timer_vars>>
    /\ UNCHANGED <<nest_vars, timer_thread_vars, join_vars, dequeued, process_join,
                   print_vars, consume_calls>>

\* _switch_context_after with a retire that does not remove QUEUED
SwitchContextAfter_keeps_queued(p) ==
    /\ fault = "none" /\ cpc[p] = "after"
    /\ IF retired[p] = None \/ retired[p] \notin thread_pool
       THEN /\ fault' = "unwrap_none"
            /\ UNCHANGED <<retired, retire_arg, cpc>>
       ELSE /\ retire_arg' = [retire_arg EXCEPT ![p] = retired[p]]
            /\ retired' = [retired EXCEPT ![p] = None]
            /\ cpc' = [cpc EXCEPT ![p] = "retire_check"]
            /\ fault' = "none"
    /\ UNCHANGED <<sched_vars, queue_vars, current, irql, thread_pool, next_id, priority,
                   attribute, sleep_counter, quantum, pid, sem, tpc, saved_irql,
                   process_vars, timer_vars>>
    /\ UNCHANGED <<nest_vars, timer_thread_vars, join_vars, dequeued, process_join,
                   print_vars, consume_calls>>

\* _switch_context_after / setup_new_thread: take_retired().unwrap(), then
\* Scheduler::retire begins: handle.as_ref(), attribute.remove(QUEUED)
SwitchContextAfter(p) ==
    /\ fault = "none" /\ cpc[p] = "after"
    /\ IF retired[p] = None \/ retired[p] \notin thread_pool
       THEN /\ fault' = "unwrap_none"
            /\ UNCHANGED <<retired, retire_arg, attribute, cpc>>
       ELSE /\ retire_arg' = [retire_arg EXCEPT ![p] = retired[p]]
            /\ retired' = [retired EXCEPT ![p] = None]
            /\ attribute' = [attribute EXCEPT ![retired[p]] = @ \ {QUEUED}]
            /\ cpc' = [cpc EXCEPT ![p] = "retire_check"]
            /\ fault' = "none"
    /\ UNCHANGED <<sched_vars, queue_vars, current, irql, thread_pool, next_id, priority,
                   sleep_counter, quantum, pid, sem, tpc, saved_irql, process_vars,
                   timer_vars>>
    /\ UNCHANGED <<nest_vars, timer_thread_vars, join_vars, dequeued, process_join,
                   print_vars, consume_calls>>

\* Scheduler::retire: the tests on priority, ZOMBIE and is_asleep
RetireCheck(p) ==
    LET t == retire_arg[p] IN
    /\ fault = "none" /\ cpc[p] = "retire_check"
    /\ CASE RetireDecision(t) = "enqueue" ->
              /\ cpc' = [cpc EXCEPT ![p] = "retire_test_and_set"]
              /\ UNCHANGED <<thread_pool, retire_arg, irql, tpc, fault>>
         [] RetireDecision(t) = "remove" ->
              /\ thread_pool' = thread_pool \ {t}
              /\ FinishSwitch(p)
         [] OTHER ->
              /\ UNCHANGED thread_pool
              /\ FinishSwitch(p)
    /\ UNCHANGED <<sched_vars, queue_vars, current, retired, next_id, priority, attribute,
                   sleep_counter, quantum, pid, sem, saved_irql, process_vars, timer_vars>>
    /\ UNCHANGED <<nest_vars, timer_thread_vars, join_vars, dequeued, process_join,
                   print_vars, consume_calls>>

\* Scheduler::retire enqueueing whatever test_and_set(QUEUED) returned
RetireTestAndSet_unconditional(p) ==
    LET t == retire_arg[p] IN
    /\ fault = "none" /\ cpc[p] = "retire_test_and_set"
    /\ attribute' = [attribute EXCEPT ![t] = @ \cup {QUEUED}]
    /\ cpc' = [cpc EXCEPT ![p] = "retire_enqueue"]
    /\ UNCHANGED <<retire_arg, irql, tpc, fault>>
    /\ UNCHANGED <<sched_vars, queue_vars, current, retired, thread_pool, next_id, priority,
                   sleep_counter, quantum, pid, sem, saved_irql, process_vars, timer_vars>>
    /\ UNCHANGED <<nest_vars, timer_thread_vars, join_vars, dequeued, process_join,
                   print_vars, consume_calls>>

\* Scheduler::retire: attribute.test_and_set(QUEUED)
RetireTestAndSet(p) ==
    LET t == retire_arg[p] IN
    /\ fault = "none" /\ cpc[p] = "retire_test_and_set"
    /\ IF QUEUED \in attribute[t]
       THEN /\ UNCHANGED attribute
            /\ FinishSwitch(p)
       ELSE /\ attribute' = [attribute EXCEPT ![t] = @ \cup {QUEUED}]
            /\ cpc' = [cpc EXCEPT ![p] = "retire_enqueue"]
            /\ UNCHANGED <<retire_arg, irql, tpc, fault>>
    /\ UNCHANGED <<sched_vars, queue_vars, current, retired, thread_pool, next_id, priority,
                   sleep_counter, quantum, pid, sem, saved_irql, process_vars, timer_vars>>
    /\ UNCHANGED <<nest_vars, timer_thread_vars, join_vars, dequeued, process_join,
                   print_vars, consume_calls>>

\* Scheduler::retire: shared._enqueue(handle)
RetireEnqueue(p) ==
    LET t == retire_arg[p] IN
    /\ fault = "none" /\ cpc[p] = "retire_enqueue"
    /\ IF EnqueueFault(t) # "none"
       THEN /\ fault' = EnqueueFault(t)
            /\ UNCHANGED <<queue_vars, retire_arg, irql, cpc, tpc>>
       ELSE /\ Enqueue(t)
            /\ FinishSwitch(p)
    /\ UNCHANGED <<sched_vars, current, retired, thread_pool, next_id, priority, attribute,
                   sleep_counter, quantum, pid, sem, saved_irql, process_vars, timer_vars>>
    /\ UNCHANGED <<nest_vars, timer_thread_vars, join_vars, dequeued, process_join,
                   print_vars, consume_calls>>

(* ----------------------------- dispatch ------------------------------- *)

\* the bound on timer interrupts: one that only shortens the quantum of the
\* running thread is delivered MaxTicks times per quantum at most
TickAllowed(p) ==
    LET cur == current[p] IN
    (~is_frozen /\ priority[cur] # Priority_Realtime
        /\ reschedule_pick(p).consumed /\ ~consume(cur).result)
    => QuantumOf(priority[cur]) - quantum[cur] < MaxTicks

\* without_interrupts! in Irql::raise: no interrupt is delivered to processor p
\* while its current thread is inside a closure of Irql::raise
InterruptsEnabled(p) == irql_frames[current[p]] = <<>>

\* Scheduler::reschedule without its return for a Realtime outgoing thread
RescheduleCall_preempts_realtime(p) ==
    LET cur == current[p]
        pick == reschedule_pick(p)
    IN
    /\ fault = "none" /\ cpc[p] = "run"
    /\ InterruptsEnabled(p)
    /\ is_enabled
    /\ IF is_frozen
       THEN /\ SwitchContext(p, idle(p), tpc[cur])
            /\ UNCHANGED <<queue_vars, quantum>>
       ELSE /\ quantum' = IF pick.consumed
                          THEN [quantum EXCEPT ![cur] = consume(cur).new]
                          ELSE quantum
            /\ Dequeue(pick.from)
            /\ IF pick.from = "none"
               THEN UNCHANGED <<current, retired, irql, cpc, saved_irql, tpc, fault>>
               ELSE SwitchContext(p, pick.next, tpc[cur])
    /\ UNCHANGED <<sched_vars, retire_arg, thread_pool, next_id, priority, attribute,
                   sleep_counter, pid, sem, process_vars, timer_vars>>
    /\ UNCHANGED <<nest_vars, timer_thread_vars, join_vars, dequeued, process_join,
                   print_vars, consume_calls>>

\* Scheduler::reschedule testing for a Realtime outgoing thread only after
\* queue_realtime.dequeue()
RescheduleCall_realtime_after_queue(p) ==
    LET cur == current[p]
        pick == reschedule_pick(p)
    IN
    /\ fault = "none" /\ cpc[p] = "run"
    /\ InterruptsEnabled(p)
    /\ is_enabled
    /\ IF is_frozen
       THEN /\ SwitchContext(p, idle(p), tpc[cur])
            /\ UNCHANGED <<queue_vars, quantum>>
       ELSE IF priority[cur] = Priority_Realtime /\ pick.from # "realtime"
       THEN UNCHANGED <<queue_vars, quantum, current, retired, irql, cpc, saved_irql,
                        tpc, fault>>
       ELSE /\ quantum' = IF pick.consumed
                          THEN [quantum EXCEPT ![cur] = consume(cur).new]
                          ELSE quantum
            /\ Dequeue(pick.from)
            /\ IF pick.from = "none"
               THEN UNCHANGED <<current, retired, irql, cpc, saved_irql, tpc, fault>>
               ELSE SwitchContext(p, pick.next, tpc[cur])
    /\ UNCHANGED <<sched_vars, retire_arg, thread_pool, next_id, priority, attribute,
                   sleep_counter, pid, sem, process_vars, timer_vars>>
    /\ UNCHANGED <<nest_vars, timer_thread_vars, join_vars, dequeued, process_join,
                   print_vars, consume_calls>>

\* Scheduler::reschedule on processor p: what it does to the kernel's state
RescheduleEffect(p) ==
    LET cur == current[p]
        pick == reschedule_pick(p)
    IN
    /\ fault = "none" /\ cpc[p] = "run"
    /\ InterruptsEnabled(p)
    /\ is_enabled
    /\ IF is_frozen
       THEN /\ SwitchContext(p, idle(p), tpc[cur])
            /\ UNCHANGED <<queue_vars, quantum>>
       ELSE IF priority[cur] = Priority_Realtime
       THEN UNCHANGED <<queue_vars, quantum, current, retired, irql, cpc, saved_irql,
                        tpc, fault>>
       ELSE /\ quantum' = IF pick.consumed
                          THEN [quantum EXCEPT ![cur] = consume(cur).new]
                          ELSE quantum
            /\ Dequeue(pick.from)
            /\ IF pick.from = "none"
               THEN UNCHANGED <<current, retired, irql, cpc, saved_irql, tpc, fault>>
               ELSE SwitchContext(p, pick.next, tpc[cur])
    /\ UNCHANGED <<sched_vars, retire_arg, thread_pool, next_id, priority, attribute,
                   sleep_counter, pid, sem, process_vars, timer_vars>>
    /\ UNCHANGED <<nest_vars, timer_thread_vars, join_vars, dequeued, process_join, print_vars>>

\* Scheduler::reschedule on processor p (timer interrupt or IPI)
RescheduleCall(p) ==
    /\ RescheduleEffect(p)
    /\ UNCHANGED consume_calls

\* Scheduler::reschedule on processor p, with the bound on the timer
\* interrupts that only shorten a quantum
Reschedule(p) ==
    /\ TickAllowed(p)
    /\ RescheduleCall(p)

\* Scheduler::sleep without its sleep_counter.fetch_add(1)
SchedulerSleepFetchAdd_no_increment(p) ==
    LET cur == current[p] IN
    /\ fault = "none" /\ cpc[p] = "run"
    /\ tpc[cur] \in {"timer_scheduled", "exit_sleep"}
    /\ cpc' = [cpc EXCEPT ![p] = "sleep_switch"]
    /\ UNCHANGED <<sched_vars, queue_vars, current, retired, irql, retire_arg, thread_vars,
                   process_vars, timer_vars, fault>>
    /\ UNCHANGED <<nest_vars, timer_thread_vars, join_vars, dequeued, process_join,
                   print_vars, consume_calls>>

\* Scheduler::sleep, first half: sleep_counter.fetch_add(1), interrupts off
SchedulerSleepFetchAdd(p) ==
    LET cur == current[p] IN
    /\ fault = "none" /\ cpc[p] = "run"
    /\ tpc[cur] \in {"timer_scheduled", "exit_sleep"}
    /\ sleep_counter' = [sleep_counter EXCEPT ![cur] = @ + 1]
    /\ cpc' = [cpc EXCEPT ![p] = "sleep_switch"]
    /\ UNCHANGED <<sched_vars, queue_vars, current, retired, irql, retire_arg, thread_pool,
                   next_id, priority, attribute, quantum, pid, sem, tpc, saved_irql,
                   process_vars, timer_vars, fault>>
    /\ UNCHANGED <<nest_vars, timer_thread_vars, join_vars, dequeued, process_join,
                   print_vars, consume_calls>>

\* Scheduler::sleep, second half:
\* switch_context(local, local.next_thread().unwrap_or(local.idle))
SchedulerSleepSwitch(p) ==
    LET cur == current[p]
        pick == _next_thread(p)
    IN
    /\ fault = "none" /\ cpc[p] = "sleep_switch"
    /\ Dequeue(pick.from)
    /\ SwitchContext(p, IF pick.from = "none" THEN idle(p) ELSE pick.next,
                     IF tpc[cur] = "exit_sleep" THEN "exit_dead" ELSE "run")
    /\ UNCHANGED <<sched_vars, retire_arg, thread_pool, next_id, priority, attribute,
                   sleep_counter, quantum, pid, sem, process_vars, timer_vars>>
    /\ UNCHANGED <<nest_vars, timer_thread_vars, join_vars, dequeued, process_join,
                   print_vars, consume_calls>>

\* Scheduler::yield_thread as ThreadContextData::exit calls it first
ExitYield(p) ==
    LET cur == current[p]
        pick == _next_thread(p)
    IN
    /\ fault = "none" /\ cpc[p] = "run"
    /\ priority[cur] # Priority_Idle /\ tpc[cur] = "run"
    /\ Dequeue(pick.from)
    /\ SwitchContext(p, IF pick.from = "none" THEN idle(p) ELSE pick.next, "exit_signal")
    /\ UNCHANGED <<sched_vars, retire_arg, thread_pool, next_id, priority, attribute,
                   sleep_counter, quantum, pid, sem, process_vars, timer_vars>>
    /\ UNCHANGED <<nest_vars, timer_thread_vars, join_vars, dequeued, process_join,
                   print_vars, consume_calls>>

(* ------------------------ spawning and exiting ------------------------ *)

\* the SpawnOption values tried: the priority override (override = FALSE is
\* priority: None, the process's priority is inherited) and new_process
SpawnOptions ==
    { [override |-> TRUE, priority |-> Priority_Realtime, new_process |-> FALSE],
      [override |-> TRUE, priority |-> Priority_Low, new_process |-> TRUE],
      [override |-> TRUE, priority |-> Priority_Idle, new_process |-> FALSE] }

\* Scheduler::spawn_thread giving the thread its process's priority whatever
\* options.priority is
SpawnThreadCall_ignores_override(cpid, opt) ==
    LET t == next_id
        npid == IF opt.new_process THEN next_pid ELSE cpid
        pprio == IF opt.new_process
                 THEN (IF opt.override THEN opt.priority ELSE Priority_Normal)
                 ELSE process_priority[cpid]
        prio == pprio
        queued == ~(prio = Priority_Idle)
        full == queued /\ Len(QueueNamed(QueueOf(prio))) >= CapacityOf(QueueOf(prio))
    IN
    /\ opt.new_process => next_pid <= MaxPid
    /\ IF npid \notin process_pool \cup (IF opt.new_process THEN {npid} ELSE {})
       THEN /\ fault' = "unwrap_none"
            /\ UNCHANGED <<queue_vars, thread_pool, next_id, priority, attribute, quantum,
                           pid, tpc, process_pool, next_pid, n_threads, process_priority,
                           parent>>
       ELSE /\ process_pool' = IF opt.new_process THEN process_pool \cup {npid}
                               ELSE process_pool
            /\ next_pid' = IF opt.new_process THEN next_pid + 1 ELSE next_pid
            /\ process_priority' = IF opt.new_process
                                   THEN [process_priority EXCEPT ![npid] = pprio]
                                   ELSE process_priority
            /\ parent' = IF opt.new_process THEN [parent EXCEPT ![npid] = cpid] ELSE parent
            /\ n_threads' = [n_threads EXCEPT ![npid] = @ + 1]
            /\ next_id' = t + 1
            /\ thread_pool' = thread_pool \cup {t}
            /\ priority' = [priority EXCEPT ![t] = prio]
            /\ quantum' = [quantum EXCEPT ![t] = QuantumOf(prio)]
            /\ pid' = [pid EXCEPT ![t] = npid]
            /\ tpc' = [tpc EXCEPT ![t] = "new"]
            /\ attribute' = [attribute EXCEPT ![t] = IF queued THEN {QUEUED} ELSE {}]
            /\ IF queued /\ ~full
               THEN /\ queue_realtime' = IF QueueOf(prio) = "realtime"
                                         THEN Append(queue_realtime, t) ELSE queue_realtime
                    /\ queue_normal' = IF QueueOf(prio) = "normal"
                                       THEN Append(queue_normal, t) ELSE queue_normal
                    /\ queue_urgent' = queue_urgent
               ELSE UNCHANGED queue_vars
            /\ fault' = IF full THEN "queue_full" ELSE "none"

\* Scheduler::spawn_thread called with current_pid = cpid: the new process (if
\* any), n_threads.fetch_add, ThreadContextData::new, Scheduler::add
SpawnThreadCall(cpid, opt) ==
    LET t == next_id
        npid == IF opt.new_process THEN next_pid ELSE cpid
        pprio == IF opt.new_process
                 THEN (IF opt.override THEN opt.priority ELSE Priority_Normal)
                 ELSE process_priority[cpid]
        prio == IF opt.override THEN opt.priority ELSE pprio
        queued == ~(prio = Priority_Idle)
        full == queued /\ Len(QueueNamed(QueueOf(prio))) >= CapacityOf(QueueOf(prio))
    IN
    /\ opt.new_process => next_pid <= MaxPid
    /\ IF npid \notin process_pool \cup (IF opt.new_process THEN {npid} ELSE {})
       THEN /\ fault' = "unwrap_none"
            /\ UNCHANGED <<queue_vars, thread_pool, next_id, priority, attribute, quantum,
                           pid, tpc, process_pool, next_pid, n_threads, process_priority,
                           parent>>
       ELSE /\ process_pool' = IF opt.new_process THEN process_pool \cup {npid}
                               ELSE process_pool
            /\ next_pid' = IF opt.new_process THEN next_pid + 1 ELSE next_pid
            /\ process_priority' = IF opt.new_process
                                   THEN [process_priority EXCEPT ![npid] = pprio]
                                   ELSE process_priority
            /\ parent' = IF opt.new_process THEN [parent EXCEPT ![npid] = cpid] ELSE parent
            /\ n_threads' = [n_threads EXCEPT ![npid] = @ + 1]
            /\ next_id' = t + 1
            /\ thread_pool' = thread_pool \cup {t}
            /\ priority' = [priority EXCEPT ![t] = prio]
            /\ quantum' = [quantum EXCEPT ![t] = QuantumOf(prio)]
            /\ pid' = [pid EXCEPT ![t] = npid]
            /\ tpc' = [tpc EXCEPT ![t] = "new"]
            /\ attribute' = [attribute EXCEPT ![t] = IF queued THEN {QUEUED} ELSE {}]
            /\ IF queued /\ ~full
               THEN /\ queue_realtime' = IF QueueOf(prio) = "realtime"
                                         THEN Append(queue_realtime, t) ELSE queue_realtime
                    /\ queue_normal' = IF QueueOf(prio) = "normal"
                                       THEN Append(queue_normal, t) ELSE queue_normal
                    /\ queue_urgent' = queue_urgent
               ELSE UNCHANGED queue_vars
            /\ fault' = IF full THEN "queue_full" ELSE "none"

\* Scheduler::spawn_thread, for the handles the thread records reach
SpawnThread(cpid, opt) ==
    /\ next_id <= MaxHandle
    /\ SpawnThreadCall(cpid, opt)

\* Scheduler::start from fence(SeqCst) on: SCHEDULER_STATE.set(Normal), then
\* SpawnOption::with_priority(High).start_process(f, args, "System")
Start ==
    /\ fault = "none" /\ installed /\ scheduler_state = "Disabled"
    /\ scheduler_state' = "Normal"
    /\ SpawnThread(0, [override |-> TRUE, priority |-> Priority_High, new_process |-> TRUE])
    /\ UNCHANGED <<is_frozen, usage_total, core_type, local_vars, sleep_counter, sem,
                   saved_irql, psem, timer_vars>>
    /\ UNCHANGED <<nest_vars, timer_thread_vars, join_vars, dequeued, process_join,
                   print_vars, consume_calls>>

\* SpawnOption::start / start_process / spawn called by the thread running on p
Spawn(p, opt) ==
    LET cur == current[p] IN
    /\ fault = "none" /\ cpc[p] = "run" /\ is_enabled
    /\ priority[cur] # Priority_Idle /\ tpc[cur] = "run"
    /\ next_id <= MaxSpawnedHandle
    /\ SpawnThread(pid[cur], opt)
    /\ UNCHANGED <<sched_vars, local_vars, sleep_counter, sem, saved_irql, psem,
                   timer_vars>>
    /\ UNCHANGED <<nest_vars, timer_thread_vars, join_vars, dequeued, process_join,
                   print_vars, consume_calls>>

\* ThreadContextData::exit going on to the thread count without
\* self.sem.signal()
ExitSignal_without_signal(p) ==
    LET cur == current[p] IN
    /\ fault = "none" /\ cpc[p] = "run" /\ tpc[cur] = "exit_signal"
    /\ tpc' = [tpc EXCEPT ![cur] = "exit_decrement"]
    /\ UNCHANGED <<sched_vars, queue_vars, local_vars, thread_pool, next_id, priority,
                   attribute, sleep_counter, quantum, pid, sem, saved_irql, process_vars,
                   timer_vars, fault>>
    /\ UNCHANGED <<nest_vars, timer_thread_vars, join_vars, dequeued, process_join,
                   print_vars, consume_calls>>

\* ThreadContextData::exit: self.sem.signal() and the personality's on_exit
ExitSignal(p) ==
    LET cur == current[p] IN
    /\ fault = "none" /\ cpc[p] = "run" /\ tpc[cur] = "exit_signal"
    /\ sem' = [sem EXCEPT ![cur] = @ + 1]
    /\ tpc' = [tpc EXCEPT ![cur] = "exit_decrement"]
    /\ UNCHANGED <<sched_vars, queue_vars, local_vars, thread_pool, next_id, priority,
                   attribute, sleep_counter, quantum, pid, saved_irql, process_vars,
                   timer_vars, fault>>
    /\ UNCHANGED <<nest_vars, timer_thread_vars, join_vars, dequeued, process_join,
                   print_vars, consume_calls>>

\* ThreadContextData::exit comparing the value left by fetch_sub with 1
ExitDecrement_compares_new_value(p) ==
    LET cur == current[p] IN
    /\ fault = "none" /\ cpc[p] = "run" /\ tpc[cur] = "exit_decrement"
    /\ IF pid[cur] \notin process_pool
       THEN /\ fault' = "unwrap_none"
            /\ UNCHANGED <<n_threads, tpc>>
       ELSE /\ n_threads' = [n_threads EXCEPT ![pid[cur]] = @ - 1]
            /\ tpc' = [tpc EXCEPT ![cur] = IF n_threads[pid[cur]] - 1 = 1
                                            THEN "exit_process_signal"
                                            ELSE "exit_zombie"]
            /\ fault' = "none"
    /\ UNCHANGED <<sched_vars, queue_vars, local_vars, thread_pool, next_id, priority,
                   attribute, sleep_counter, quantum, pid, sem, saved_irql, process_pool,
                   next_pid, process_priority, parent, psem, timer_vars>>
    /\ UNCHANGED <<nest_vars, timer_thread_vars, join_vars, dequeued, process_join,
                   print_vars, consume_calls>>

\* ThreadContextData::exit: self.pid.get().unwrap(), n_threads.fetch_sub(1) == 1
ExitDecrement(p) ==
    LET cur == current[p] IN
    /\ fault = "none" /\ cpc[p] = "run" /\ tpc[cur] = "exit_decrement"
    /\ IF pid[cur] \notin process_pool
       THEN /\ fault' = "unwrap_none"
            /\ UNCHANGED <<n_threads, tpc>>
       ELSE /\ n_threads' = [n_threads EXCEPT ![pid[cur]] = @ - 1]
            /\ tpc' = [tpc EXCEPT ![cur] = IF n_threads[pid[cur]] = 1
                                            THEN "exit_process_signal"
                                            ELSE "exit_zombie"]
            /\ fault' = "none"
    /\ UNCHANGED <<sched_vars, queue_vars, local_vars, thread_pool, next_id, priority,
                   attribute, sleep_counter, quantum, pid, sem, saved_irql, process_pool,
                   next_pid, process_priority, parent, psem, timer_vars>>
    /\ UNCHANGED <<nest_vars, timer_thread_vars, join_vars, dequeued, process_join,
                   print_vars, consume_calls>>

\* ProcessContextData::exit: self.sem.signal()
ProcessExitSignal(p) ==
    LET cur == current[p] IN
    /\ fault = "none" /\ cpc[p] = "run" /\ tpc[cur] = "exit_process_signal"
    /\ psem' = [psem EXCEPT ![pid[cur]] = @ + 1]
    /\ tpc' = [tpc EXCEPT ![cur] = "exit_process_remove"]
    /\ UNCHANGED <<sched_vars, queue_vars, local_vars, thread_pool, next_id, priority,
                   attribute, sleep_counter, quantum, pid, sem, saved_irql, process_pool,
                   next_pid, n_threads, process_priority, parent, timer_vars, fault>>
    /\ UNCHANGED <<nest_vars, timer_thread_vars, join_vars, dequeued, process_join,
                   print_vars, consume_calls>>

\* ProcessContextData::exit: ProcessPool::shared().remove(self.pid)
ProcessExitRemove(p) ==
    LET cur == current[p] IN
    /\ fault = "none" /\ cpc[p] = "run" /\ tpc[cur] = "exit_process_remove"
    /\ process_pool' = process_pool \ {pid[cur]}
    /\ tpc' = [tpc EXCEPT ![cur] = "exit_zombie"]
    /\ UNCHANGED <<sched_vars, queue_vars, local_vars, thread_pool, next_id, priority,
                   attribute, sleep_counter, quantum, pid, sem, saved_irql, next_pid,
                   n_threads, process_priority, parent, psem, timer_vars, fault>>
    /\ UNCHANGED <<nest_vars, timer_thread_vars, join_vars, dequeued, process_join,
                   print_vars, consume_calls>>

\* ThreadContextData::exit: self.attribute.insert(ZOMBIE)
ExitZombie(p) ==
    LET cur == current[p] IN
    /\ fault = "none" /\ cpc[p] = "run" /\ tpc[cur] = "exit_zombie"
    /\ attribute' = [attribute EXCEPT ![cur] = @ \cup {ZOMBIE}]
    /\ tpc' = [tpc EXCEPT ![cur] = "exit_sleep"]
    /\ UNCHANGED <<sched_vars, queue_vars, local_vars, thread_pool, next_id, priority,
                   sleep_counter, quantum, pid, sem, saved_irql, process_vars,
                   timer_vars, fault>>
    /\ UNCHANGED <<nest_vars, timer_thread_vars, join_vars, dequeued, process_join,
                   print_vars, consume_calls>>

(* ------------------------- timers and waking -------------------------- *)

\* Timer::sleep up to event.schedule() returning Ok: the OneShot event of the
\* calling thread is registered (the deadline is left open: it may pass at
\* any moment after this)
TimerSleepSchedule(p) ==
    LET cur == current[p] IN
    /\ fault = "none" /\ cpc[p] = "run" /\ is_enabled
    /\ priority[cur] # Priority_Idle /\ tpc[cur] = "run"
    /\ timer_events[cur] < MaxTimerEvents
    /\ timer_events' = [timer_events EXCEPT ![cur] = @ + 1]
    /\ tpc' = [tpc EXCEPT ![cur] = "timer_scheduled"]
    /\ UNCHANGED <<sched_vars, queue_vars, local_vars, thread_pool, next_id, priority,
                   attribute, sleep_counter, quantum, pid, sem, saved_irql, process_vars,
                   waker, fault>>
    /\ UNCHANGED <<nest_vars, timer_thread_vars, join_vars, dequeued, process_join,
                   print_vars, consume_calls>>

\* ThreadHandle::wake without its return for a handle that has no record
WakeFetchSub_ignores_get(t) ==
    /\ fault = "none" /\ waker = NoWaker /\ timer_events[t] > 0
    /\ timer_events' = [timer_events EXCEPT ![t] = @ - 1]
    /\ sleep_counter' = [sleep_counter EXCEPT ![t] = @ - 1]
    /\ waker' = [thread |-> t, step |-> "add"]
    /\ UNCHANGED <<sched_vars, queue_vars, local_vars, thread_pool, next_id, priority,
                   attribute, quantum, pid, sem, tpc, saved_irql, process_vars, fault>>
    /\ UNCHANGED <<nest_vars, timer_thread_vars, join_vars, dequeued, process_join,
                   print_vars, consume_calls>>

\* TimerEvent::fire of OneShot(t), ThreadHandle::wake: self.get() and
\* sleep_counter.fetch_sub(1)
WakeFetchSub(t) ==
    /\ fault = "none" /\ waker = NoWaker /\ timer_events[t] > 0
    /\ timer_events' = [timer_events EXCEPT ![t] = @ - 1]
    /\ IF t \notin thread_pool
       THEN UNCHANGED <<sleep_counter, waker>>
       ELSE /\ sleep_counter' = [sleep_counter EXCEPT ![t] = @ - 1]
            /\ waker' = [thread |-> t, step |-> "add"]
    /\ UNCHANGED <<sched_vars, queue_vars, local_vars, thread_pool, next_id, priority,
                   attribute, quantum, pid, sem, tpc, saved_irql, process_vars, fault>>
    /\ UNCHANGED <<nest_vars, timer_thread_vars, join_vars, dequeued, process_join,
                   print_vars, consume_calls>>

\* Scheduler::add calling _enqueue without test_and_set(QUEUED)
WakeAdd_without_test_and_set ==
    LET t == waker.thread IN
    /\ fault = "none" /\ waker.step = "add"
    /\ IF t \notin thread_pool
       THEN fault' = "unwrap_none" /\ UNCHANGED waker
       ELSE /\ waker' = IF AddReturnsEarly(t) THEN NoWaker
                        ELSE [thread |-> t, step |-> "enqueue"]
            /\ fault' = "none"
    /\ UNCHANGED <<sched_vars, queue_vars, local_vars, thread_vars, process_vars,
                   timer_events>>
    /\ UNCHANGED <<nest_vars, timer_thread_vars, join_vars, dequeued, process_join,
                   print_vars, consume_calls>>

\* Scheduler::add: handle.as_ref() and the early return for Idle and ZOMBIE
WakeAdd ==
    LET t == waker.thread IN
    /\ fault = "none" /\ waker.step = "add"
    /\ IF t \notin thread_pool
       THEN fault' = "unwrap_none" /\ UNCHANGED waker
       ELSE /\ waker' = IF AddReturnsEarly(t) THEN NoWaker
                        ELSE [thread |-> t, step |-> "test_and_set"]
            /\ fault' = "none"
    /\ UNCHANGED <<sched_vars, queue_vars, local_vars, thread_vars, process_vars,
                   timer_events>>
    /\ UNCHANGED <<nest_vars, timer_thread_vars, join_vars, dequeued, process_join,
                   print_vars, consume_calls>>

\* Scheduler::add going on to _enqueue whatever test_and_set(QUEUED) returned
WakeTestAndSet_unconditional ==
    LET t == waker.thread IN
    /\ fault = "none" /\ waker.step = "test_and_set"
    /\ attribute' = [attribute EXCEPT ![t] = @ \cup {QUEUED}]
    /\ waker' = [thread |-> t, step |-> "enqueue"]
    /\ UNCHANGED <<sched_vars, queue_vars, local_vars, thread_pool, next_id, priority,
                   sleep_counter, quantum, pid, sem, tpc, saved_irql, process_vars,
                   timer_events, fault>>
    /\ UNCHANGED <<nest_vars, timer_thread_vars, join_vars, dequeued, process_join,
                   print_vars, consume_calls>>

\* Scheduler::add: attribute.test_and_set(QUEUED)
WakeTestAndSet ==
    LET t == waker.thread IN
    /\ fault = "none" /\ waker.step = "test_and_set"
    /\ IF QUEUED \in attribute[t]
       THEN waker' = NoWaker /\ UNCHANGED attribute
       ELSE /\ attribute' = [attribute EXCEPT ![t] = @ \cup {QUEUED}]
            /\ waker' = [thread |-> t, step |-> "enqueue"]
    /\ UNCHANGED <<sched_vars, queue_vars, local_vars, thread_pool, next_id, priority,
                   sleep_counter, quantum, pid, sem, tpc, saved_irql, process_vars,
                   timer_events, fault>>
    /\ UNCHANGED <<nest_vars, timer_thread_vars, join_vars, dequeued, process_join,
                   print_vars, consume_calls>>

\* Scheduler::add: shared._enqueue(handle)
WakeEnqueue ==
    LET t == waker.thread IN
    /\ fault = "none" /\ waker.step = "enqueue"
    /\ IF EnqueueFault(t) # "none"
       THEN fault' = EnqueueFault(t) /\ UNCHANGED <<queue_vars, waker>>
       ELSE Enqueue(t) /\ waker' = NoWaker /\ fault' = "none"
    /\ UNCHANGED <<sched_vars, local_vars, thread_vars, process_vars, timer_events>>
    /\ UNCHANGED <<nest_vars, timer_thread_vars, join_vars, dequeued, process_join,
                   print_vars, consume_calls>>

(* ----------------------- global scheduler state ----------------------- *)

\* Scheduler::freeze without its test of is_enabled()
Freeze_when_disabled ==
    /\ fault = "none" /\ ~is_frozen
    /\ is_frozen' = TRUE
    /\ UNCHANGED <<scheduler_state, usage_total, core_type, queue_vars, local_vars,
                   thread_vars, process_vars, timer_vars, fault>>
    /\ UNCHANGED <<nest_vars, timer_thread_vars, join_vars, dequeued, process_join,
                   print_vars, consume_calls>>

\* Scheduler::freeze
Freeze ==
    /\ fault = "none" /\ is_enabled /\ ~is_frozen
    /\ is_frozen' = TRUE
    /\ UNCHANGED <<scheduler_state, usage_total, core_type, queue_vars, local_vars,
                   thread_vars, process_vars, timer_vars, fault>>
    /\ UNCHANGED <<nest_vars, timer_thread_vars, join_vars, dequeued, process_join,
                   print_vars, consume_calls>>

\* the aggregate loads the statistics thread is given to publish
UsageSamples == {0, NumCpus * 1000}

\* Scheduler::_statistics_thread, one sample: publish usage_total, then the
\* Normal <-> FullThrottle hysteresis
StatisticsSample(usage) ==
    /\ fault = "none" /\ is_enabled
    /\ usage_total' = usage
    /\ scheduler_state' = StateAfterSample(scheduler_state, usage)
    /\ UNCHANGED <<is_frozen, core_type, queue_vars, local_vars, thread_vars,
                   process_vars, timer_vars, fault>>
    /\ UNCHANGED <<nest_vars, timer_thread_vars, join_vars, dequeued, process_join,
                   print_vars, consume_calls>>

Next ==
    \/ Start
    \/ \E p \in Cpus :
        \/ Reschedule(p)
        \/ SwitchContextAfter(p)
        \/ RetireCheck(p)
        \/ RetireTestAndSet(p)
        \/ RetireEnqueue(p)
        \/ SchedulerSleepFetchAdd(p)
        \/ SchedulerSleepSwitch(p)
        \/ ExitYield(p)
        \/ ExitSignal(p)
        \/ ExitDecrement(p)
        \/ ProcessExitSignal(p)
        \/ ProcessExitRemove(p)
        \/ ExitZombie(p)
        \/ TimerSleepSchedule(p)
        \/ \E opt \in SpawnOptions : Spawn(p, opt)
    \/ \E t \in Handles : WakeFetchSub(t)
    \/ WakeAdd
    \/ WakeTestAndSet
    \/ WakeEnqueue

Spec == Init /\ [][Next]_vars

(* ------------- dispatch on performance and efficiency cores ----------- *)
\* The same kernel on a machine whose processors after the first may be
\* efficiency ("Sub") cores, with Scheduler::freeze and the statistics thread
\* acting; threads here do not use timers.

InitDispatch ==
    /\ InitScheduler
    /\ core_type \in {f \in [Cpus -> {"Main", "Sub"}] : f[1] = "Main"}
    /\ installed = TRUE
    /\ InitNest
    /\ InitTimerThread
    /\ InitJoin
    /\ InitPrint
    /\ InitCalls

NextDispatch ==
    \/ Start
    \/ Freeze
    \/ \E usage \in UsageSamples : StatisticsSample(usage)
    \/ \E p \in Cpus :
        \/ Reschedule(p)
        \/ SwitchContextAfter(p)
        \/ RetireCheck(p)
        \/ RetireTestAndSet(p)
        \/ RetireEnqueue(p)
        \/ SchedulerSleepFetchAdd(p)
        \/ SchedulerSleepSwitch(p)
        \/ ExitYield(p)
        \/ ExitSignal(p)
        \/ ExitDecrement(p)
        \/ ProcessExitSignal(p)
        \/ ProcessExitRemove(p)
        \/ ExitZombie(p)
        \/ \E opt \in SpawnOptions : Spawn(p, opt)

SpecDispatch == InitDispatch /\ [][NextDispatch]_vars

(* --------------------------------- IRQL ------------------------------- *)

\* what a call that touches only one processor's IRQL leaves alone
irql_frame == <<sched_vars, queue_vars, current, retired, cpc, retire_arg, thread_vars,
                process_vars, timer_vars, installed, timer_thread_vars,
                join_vars, dequeued, process_join, print_vars, consume_calls>>

\* LocalScheduler::raise_irql(new_irql) called on processor p
raise_irql(p, new_irql) ==
    /\ fault = "none"
    /\ IF RaiseAllowed(irql[p], new_irql)
       THEN /\ irql' = [irql EXCEPT ![p] = new_irql]
            /\ irql_ret' = [irql_ret EXCEPT ![p] = irql[p]]
            /\ fault' = "none"
       ELSE /\ fault' = "IRQL_NOT_GREATER_OR_EQUAL"
            /\ UNCHANGED <<irql, irql_ret>>
    /\ UNCHANGED <<irql_frame, irql_frames>>

\* LocalScheduler::lower_irql(new_irql) called on processor p
lower_irql(p, new_irql) ==
    /\ fault = "none"
    /\ IF LowerAllowed(irql[p], new_irql)
       THEN /\ irql' = [irql EXCEPT ![p] = new_irql]
            /\ fault' = "none"
       ELSE /\ fault' = "IRQL_NOT_LESS_OR_EQUAL"
            /\ UNCHANGED irql
    /\ UNCHANGED <<irql_frame, irql_frames, irql_ret>>

\* the two methods called with every level on every processor
NextIrqlCalls ==
    \E p \in Cpus : \E new_irql \in Irqls :
        \/ raise_irql(p, new_irql)
        \/ lower_irql(p, new_irql)

SpecIrqlCalls == Init /\ [][NextIrqlCalls]_vars

(* ----------------------------- Irql::raise ---------------------------- *)
\* The kernel from before Scheduler::start installs SCHEDULER, with the code
\* running on a processor (boot code before the scheduler is enabled, a
\* thread afterwards) calling Irql::raise, also nested and also sleeping
\* inside the closure.

\* Scheduler::local_scheduler() is Some(..)
local_scheduler_is_some == installed

\* the code running on processor p may call Irql::raise
MayCallIrqlRaise(p) ==
    /\ cpc[p] = "run" /\ tpc[current[p]] = "run"
    /\ priority[current[p]] = Priority_Idle => ~is_enabled

\* Scheduler::start, lines 94-129: SCHEDULER = Some(..)
Install ==
    /\ fault = "none" /\ ~installed
    /\ irql_frames[idle(1)] = <<>>
    /\ installed' = TRUE
    /\ UNCHANGED <<sched_vars, queue_vars, local_vars, thread_vars, process_vars, timer_vars,
                   fault, irql_frames, irql_ret, timer_thread_vars,
                   join_vars, dequeued, process_join, print_vars, consume_calls>>

\* Irql::raise up to the call of the closure: raise_irql(*self) when there is
\* a local scheduler, nothing otherwise
IrqlRaiseEnter(p, level) ==
    LET cur == current[p] IN
    /\ fault = "none" /\ MayCallIrqlRaise(p)
    /\ Len(irql_frames[cur]) < MaxNest
    /\ IF ~local_scheduler_is_some
       THEN /\ irql_frames' = [irql_frames EXCEPT ![cur] =
                   Append(@, [level |-> level, raised |-> FALSE, old_irql |-> Irql_Passive])]
            /\ UNCHANGED <<irql, fault>>
       ELSE IF RaiseAllowed(irql[p], level)
       THEN /\ irql' = [irql EXCEPT ![p] = level]
            /\ irql_frames' = [irql_frames EXCEPT ![cur] =
                   Append(@, [level |-> level, raised |-> TRUE, old_irql |-> irql[p]])]
            /\ fault' = "none"
       ELSE /\ fault' = "IRQL_NOT_GREATER_OR_EQUAL"
            /\ UNCHANGED <<irql, irql_frames>>
    /\ UNCHANGED <<irql_frame, irql_ret>>

\* Irql::raise from the return of the closure: lower_irql(old_irql) when
\* raise_irql was called, nothing otherwise
IrqlRaiseExit(p) ==
    LET cur == current[p]
        top == irql_frames[cur][Len(irql_frames[cur])]
    IN
    /\ fault = "none" /\ MayCallIrqlRaise(p)
    /\ irql_frames[cur] # <<>>
    /\ IF ~top.raised
       THEN /\ irql_frames' = [irql_frames EXCEPT ![cur] = SubSeq(@, 1, Len(@) - 1)]
            /\ UNCHANGED <<irql, fault>>
       ELSE IF LowerAllowed(irql[p], top.old_irql)
       THEN /\ irql' = [irql EXCEPT ![p] = top.old_irql]
            /\ irql_frames' = [irql_frames EXCEPT ![cur] = SubSeq(@, 1, Len(@) - 1)]
            /\ fault' = "none"
       ELSE /\ fault' = "IRQL_NOT_LESS_OR_EQUAL"
            /\ UNCHANGED <<irql, irql_frames>>
    /\ UNCHANGED <<irql_frame, irql_ret>>

InitIrql ==
    /\ InitScheduler
    /\ core_type = [p \in Cpus |-> "Main"]
    /\ installed = FALSE
    /\ InitNest
    /\ InitTimerThread
    /\ InitJoin
    /\ InitPrint
    /\ InitCalls

NextIrql ==
    \/ Install
    \/ Start
    \/ \E p \in Cpus :
        \/ \E level \in Irqls : IrqlRaiseEnter(p, level)
        \/ IrqlRaiseExit(p)
        \/ Reschedule(p)
        \/ SwitchContextAfter(p)
        \/ RetireCheck(p)
        \/ RetireTestAndSet(p)
        \/ RetireEnqueue(p)
        \/ TimerSleepSchedule(p)
        \/ SchedulerSleepFetchAdd(p)
        \/ SchedulerSleepSwitch(p)
    \/ \E t \in Handles : WakeFetchSub(t)
    \/ WakeAdd
    \/ WakeTestAndSet
    \/ WakeEnqueue

SpecIrql == InitIrql /\ [][NextIrql]_vars

(* --------------------------- the timer thread ------------------------- *)
\* _scheduler_thread with the events callers give to TimerEvent::schedule.
\* The events are Async ones (Timer::sleep_async, TimerEvent::async_timer):
\* firing one signals its semaphore.  An event is [deadline, id], the ids
\* numbering the events in the order of their registration.

timer_thread_frame == <<sched_vars, queue_vars, local_vars, thread_vars, process_vars,
                        timer_vars, fault, nest_vars, timer_deadline,
                        join_vars, dequeued, process_join, print_vars, consume_calls>>

\* Timer::is_alive for a timer with this deadline
is_alive(deadline) == IF deadline = 0 THEN FALSE ELSE deadline > now

\* Timer::is_expired
is_expired(deadline) == ~is_alive(deadline)

\* the stable sort by key, key after key from the smallest: the elements
\* with the same deadline keep their order
RECURSIVE SortKeys(_, _)
SortKeys(list, keys) ==
    IF keys = {} THEN <<>>
    ELSE LET d == CHOOSE k \in keys : \A j \in keys : k <= j
         IN  SelectSeq(list, LAMBDA e : e.deadline = d) \o SortKeys(list, keys \ {d})

\* the drain of timer_queue into `events` without the sort
SortByDeadline_unsorted(list) == list

\* events.sort_by_key(|a| a.timer.deadline), a stable sort
SortByDeadline(list) == SortKeys(list, {list[i].deadline : i \in DOMAIN list})

\* the id the next registered event gets
NextEventId ==
    Len(timer_queue) + Len(events) + Cardinality({e \in EventIds : async_sem[e] > 0}) + 1

\* TimerEvent::schedule -> Scheduler::_schedule_timer for an event with this
\* deadline: enqueue and signal sem_timer, or Err(event) when the queue is full
ScheduleTimer(deadline) ==
    /\ fault = "none" /\ is_enabled
    /\ NextEventId <= MaxEvents
    /\ IF Len(timer_queue) < TIMER_QUEUE_CAPACITY
       THEN /\ timer_queue' = Append(timer_queue, [deadline |-> deadline, id |-> NextEventId])
            /\ sem_timer' = sem_timer + 1
       ELSE UNCHANGED <<timer_queue, sem_timer>>
    /\ UNCHANGED <<timer_thread_frame, now, events, next_timer, tt_pc, async_sem>>

\* the clock advances
Tick ==
    /\ fault = "none" /\ now < MaxNow
    /\ now' = now + 1
    /\ UNCHANGED <<timer_thread_frame, timer_queue, events, next_timer, sem_timer, tt_pc,
                   async_sem>>

\* Scheduler::reschedule signalling while the published next_timer is alive
\* instead of when it is expired
RescheduleTimerCheck_when_alive ==
    /\ fault = "none" /\ is_enabled
    /\ is_alive(next_timer)
    /\ sem_timer < MaxSignals
    /\ sem_timer' = sem_timer + 1
    /\ UNCHANGED <<timer_thread_frame, now, timer_queue, events, next_timer, tt_pc,
                   async_sem>>

\* Scheduler::reschedule, lines 240-242: sem_timer.signal() when the published
\* next_timer is expired
RescheduleTimerCheck ==
    /\ fault = "none" /\ is_enabled
    /\ is_expired(next_timer)
    /\ sem_timer < MaxSignals
    /\ sem_timer' = sem_timer + 1
    /\ UNCHANGED <<timer_thread_frame, now, timer_queue, events, next_timer, tt_pc,
                   async_sem>>

\* _scheduler_thread, lines 396-402: drain timer_queue into events and sort
TimerDrain ==
    /\ fault = "none" /\ is_enabled /\ tt_pc = "drain"
    /\ IF timer_queue # <<>>
       THEN /\ events' = SortByDeadline(events \o timer_queue)
            /\ timer_queue' = <<>>
       ELSE UNCHANGED <<events, timer_queue>>
    /\ tt_pc' = "fire"
    /\ UNCHANGED <<timer_thread_frame, now, next_timer, sem_timer, async_sem>>

\* _scheduler_thread, lines 404-411: one turn of the firing loop
TimerFire ==
    /\ fault = "none" /\ tt_pc = "fire"
    /\ IF events = <<>> \/ is_alive(Head(events).deadline)
       THEN /\ tt_pc' = "publish"
            /\ UNCHANGED <<events, async_sem>>
       ELSE /\ events' = Tail(events)
            /\ async_sem' = [async_sem EXCEPT ![Head(events).id] = @ + 1]
            /\ UNCHANGED tt_pc
    /\ UNCHANGED <<timer_thread_frame, now, timer_queue, next_timer, sem_timer>>

\* _scheduler_thread, lines 413-417: publish the first deadline still held
TimerPublish ==
    /\ fault = "none" /\ tt_pc = "publish"
    /\ next_timer' = IF events # <<>> THEN Head(events).deadline ELSE next_timer
    /\ tt_pc' = "wait"
    /\ UNCHANGED <<timer_thread_frame, now, timer_queue, events, sem_timer, async_sem>>

\* _scheduler_thread, line 418: sem_timer.wait()
TimerWait ==
    /\ fault = "none" /\ tt_pc = "wait"
    /\ sem_timer > 0
    /\ sem_timer' = sem_timer - 1
    /\ tt_pc' = "drain"
    /\ UNCHANGED <<timer_thread_frame, now, timer_queue, events, next_timer, async_sem>>

NextTimer ==
    \/ Start
    \/ \E deadline \in 0..MaxNow : ScheduleTimer(deadline)
    \/ Tick
    \/ RescheduleTimerCheck
    \/ TimerDrain
    \/ TimerFire
    \/ TimerPublish
    \/ TimerWait

SpecTimer == Init /\ [][NextTimer]_vars

\* the timer thread is scheduled fairly, some processor keeps calling
\* reschedule and the clock keeps advancing
FairTimer ==
    /\ WF_vars(TimerDrain) /\ WF_vars(TimerFire) /\ WF_vars(TimerPublish)
    /\ WF_vars(TimerWait)
    /\ WF_vars(RescheduleTimerCheck)
    /\ WF_vars(Tick)

SpecTimerFair == SpecTimer /\ FairTimer

(* ----------------------------- Timer::sleep --------------------------- *)
\* Threads that call Timer::sleep, with the clock and _scheduler_thread firing
\* their OneShot events.  An event is [deadline, thread].  The steps of the
\* timer thread interleave with those of the processors.

\* the durations Timer::sleep is called with
SleepDurations == 0..MaxNow

\* Timer::sleep going on to Scheduler::sleep when event.schedule() returned
\* Err on a full queue
TimerSleep_sleeps_on_full(p, d) ==
    LET cur == current[p]
        deadline == IF tpc[cur] = "timer_retry" THEN timer_deadline[cur] ELSE now + d
        pick == _next_thread(p)
    IN
    /\ fault = "none" /\ cpc[p] = "run" /\ is_enabled
    /\ priority[cur] # Priority_Idle
    /\ tpc[cur] \in {"run", "timer_retry"}
    /\ tpc[cur] = "timer_retry" => d = 0
    /\ deadline <= MaxNow
    /\ timer_deadline' = [timer_deadline EXCEPT ![cur] = deadline]
    /\ IF ~is_alive(deadline)
       THEN /\ tpc' = [tpc EXCEPT ![cur] = "run"]
            /\ UNCHANGED <<timer_queue, sem_timer, queue_vars, current, retired, irql, cpc,
                           saved_irql, fault>>
       ELSE IF Len(timer_queue) < TIMER_QUEUE_CAPACITY
       THEN /\ timer_queue' = Append(timer_queue, [deadline |-> deadline, thread |-> cur])
            /\ sem_timer' = sem_timer + 1
            /\ tpc' = [tpc EXCEPT ![cur] = "timer_scheduled"]
            /\ UNCHANGED <<queue_vars, current, retired, irql, cpc, saved_irql, fault>>
       ELSE /\ tpc' = [tpc EXCEPT ![cur] = "timer_scheduled"]
            /\ UNCHANGED <<timer_queue, sem_timer, queue_vars, current, retired, irql, cpc,
                           saved_irql, fault>>
    /\ UNCHANGED <<sched_vars, retire_arg, thread_pool, next_id, priority, attribute,
                   sleep_counter, quantum, pid, sem, process_vars, timer_vars, nest_vars,
                   now, events, next_timer, tt_pc, async_sem, join_vars, dequeued,
                   process_join, print_vars, consume_calls>>

\* Timer::sleep(d) on processor p, one turn of its loop: Timer::new and
\* TimerEvent::one_shot on entry, then `while timer.is_alive()` with
\* event.schedule(): Ok goes on to Scheduler::sleep, Err to yield_thread and
\* the next turn
TimerSleep(p, d) ==
    LET cur == current[p]
        deadline == IF tpc[cur] = "timer_retry" THEN timer_deadline[cur] ELSE now + d
        pick == _next_thread(p)
    IN
    /\ fault = "none" /\ cpc[p] = "run" /\ is_enabled
    /\ priority[cur] # Priority_Idle
    /\ tpc[cur] \in {"run", "timer_retry"}
    /\ tpc[cur] = "timer_retry" => d = 0
    /\ deadline <= MaxNow
    /\ timer_deadline' = [timer_deadline EXCEPT ![cur] = deadline]
    /\ IF ~is_alive(deadline)
       THEN /\ tpc' = [tpc EXCEPT ![cur] = "run"]
            /\ UNCHANGED <<timer_queue, sem_timer, queue_vars, current, retired, irql, cpc,
                           saved_irql, fault>>
       ELSE IF Len(timer_queue) < TIMER_QUEUE_CAPACITY
       THEN /\ timer_queue' = Append(timer_queue, [deadline |-> deadline, thread |-> cur])
            /\ sem_timer' = sem_timer + 1
            /\ tpc' = [tpc EXCEPT ![cur] = "timer_scheduled"]
            /\ UNCHANGED <<queue_vars, current, retired, irql, cpc, saved_irql, fault>>
       ELSE /\ Dequeue(pick.from)
            /\ SwitchContext(p, IF pick.from = "none" THEN idle(p) ELSE pick.next,
                             "timer_retry")
            /\ UNCHANGED <<timer_queue, sem_timer>>
    /\ UNCHANGED <<sched_vars, retire_arg, thread_pool, next_id, priority, attribute,
                   sleep_counter, quantum, pid, sem, process_vars, timer_vars, nest_vars,
                   now, events, next_timer, tt_pc, async_sem, join_vars, dequeued,
                   process_join, print_vars, consume_calls>>

\* _scheduler_thread, lines 404-411, for OneShot events: one turn of the
\* firing loop; the fire() of the event taken off the list is the wake of
\* its thread, and the loop goes on when that call has returned
TimerFireOneShot ==
    /\ fault = "none" /\ tt_pc = "fire"
    /\ waker = NoWaker /\ \A t \in Handles : timer_events[t] = 0
    /\ IF events = <<>> \/ is_alive(Head(events).deadline)
       THEN /\ tt_pc' = "publish"
            /\ UNCHANGED <<events, timer_events>>
       ELSE /\ events' = Tail(events)
            /\ timer_events' = [timer_events EXCEPT ![Head(events).thread] = @ + 1]
            /\ UNCHANGED tt_pc
    /\ UNCHANGED <<sched_vars, queue_vars, local_vars, thread_vars, process_vars, waker,
                   fault, nest_vars, now, timer_queue, next_timer, sem_timer, async_sem,
                   timer_deadline, join_vars, dequeued, process_join, print_vars, consume_calls>>

NextSleep ==
    \/ Start
    \/ \E p \in Cpus : \E d \in SleepDurations : TimerSleep(p, d)
    \/ Tick
    \/ RescheduleTimerCheck
    \/ TimerDrain
    \/ TimerFireOneShot
    \/ TimerPublish
    \/ TimerWait
    \/ \E t \in Handles : WakeFetchSub(t)
    \/ WakeAdd
    \/ WakeTestAndSet
    \/ WakeEnqueue
    \/ \E p \in Cpus :
          \/ Reschedule(p)
          \/ SwitchContextAfter(p)
          \/ RetireCheck(p)
          \/ RetireTestAndSet(p)
          \/ RetireEnqueue(p)
          \/ SchedulerSleepFetchAdd(p)
          \/ SchedulerSleepSwitch(p)

SpecSleep == Init /\ [][NextSleep]_vars

(* -------------------- Timer::sleep on a full timer queue --------------- *)
\* Timer::sleep while other callers of TimerEvent::schedule have filled
\* timer_queue up to its capacity.  Their events are Async and Window ones,
\* which carry no thread, with deadlines beyond the last value of the clock.

\* the deadline of the events of the other callers
BacklogDeadline == MaxNow + 1

\* n such events
Backlog(n) == [i \in 1..n |-> [deadline |-> BacklogDeadline, thread |-> None]]

\* TimerEvent::schedule called n times by other callers while the timer
\* thread has not run: n times enqueue and sem_timer.signal()
FillTimerQueue(n) ==
    /\ fault = "none" /\ is_enabled
    /\ timer_queue = <<>> /\ events = <<>> /\ sem_timer = 0
    /\ timer_queue' = Backlog(n)
    /\ sem_timer' = n
    /\ UNCHANGED <<timer_thread_frame, now, events, next_timer, tt_pc, async_sem>>

\* the processor the sleeping thread runs on; the other one stays in its
\* idle thread
SleeperCpu == 1

NextSleepFull ==
    \/ Start
    \/ FillTimerQueue(TIMER_QUEUE_CAPACITY)
    \/ \E d \in SleepDurations : TimerSleep(SleeperCpu, d)
    \/ Tick
    \/ RescheduleTimerCheck
    \/ TimerDrain
    \/ TimerFireOneShot
    \/ TimerPublish
    \/ TimerWait
    \/ \E t \in Handles : WakeFetchSub(t)
    \/ WakeAdd
    \/ WakeTestAndSet
    \/ WakeEnqueue
    \/ Reschedule(SleeperCpu)
    \/ SwitchContextAfter(SleeperCpu)
    \/ RetireCheck(SleeperCpu)
    \/ RetireTestAndSet(SleeperCpu)
    \/ RetireEnqueue(SleeperCpu)
    \/ SchedulerSleepFetchAdd(SleeperCpu)
    \/ SchedulerSleepSwitch(SleeperCpu)

SpecSleepFull == Init /\ [][NextSleepFull]_vars

(* --------------------------- statistics thread ------------------------ *)
\* _statistics_thread sampling loads on both sides of the two thresholds, for
\* every split of the processors into performance and efficiency cores.

\* usize::min(usage, num_cpu * 1000)
ClampUsage(usage) == IF usage < NumCpus * 1000 THEN usage ELSE NumCpus * 1000

\* the sums of thread loads the samples find: around each threshold of each
\* number of performance cores, and around the clamp
SampledUsages ==
    {0}
    \cup {k * THRESHOLD_LEAVE_MAX + e : k \in Cpus, e \in (0 - SampleWindow)..SampleWindow}
    \cup {(k - 1) * 1000 + THRESHOLD_ENTER_MAX + e :
              k \in Cpus, e \in (0 - SampleWindow)..SampleWindow}
    \cup {NumCpus * 1000 + e : e \in (0 - SampleWindow)..SampleWindow}

NextStatistics ==
    \/ Start
    \/ Freeze
    \/ \E usage \in SampledUsages : StatisticsSample(ClampUsage(usage))

SpecStatistics == InitDispatch /\ [][NextStatistics]_vars

(* ------------------------ FnSpawner and JoinHandle -------------------- *)
\* A thread spawns a closure with SpawnOption::spawn and the holder of the
\* JoinHandle joins it.  The holder's steps interleave with the processors.
\* Semaphore is not part of the source given: wait blocks until a signal is
\* there and takes it, signal never blocks.

join_frame == <<sched_vars, queue_vars, local_vars, thread_pool, next_id, priority,
                attribute, sleep_counter, quantum, pid, tpc, saved_irql, process_vars,
                timer_vars, nest_vars, timer_thread_vars, dequeued, process_join,
                   print_vars, consume_calls>>

\* the SpawnOption values spawn is called with: new() and with_priority(..);
\* new_process stays false
JoinSpawnOptions ==
    { [override |-> FALSE, priority |-> Priority_Normal, new_process |-> FALSE],
      [override |-> TRUE, priority |-> Priority_Normal, new_process |-> FALSE],
      [override |-> TRUE, priority |-> Priority_Realtime, new_process |-> FALSE] }

\* FnSpawner::spawn called by the thread running on p: the Arc and its clone,
\* Scheduler::spawn_thread(_start_thread, ..).unwrap(), the JoinHandle
FnSpawnerSpawn(p, opt) ==
    LET cur == current[p]
        t == next_id
    IN
    /\ fault = "none" /\ cpc[p] = "run" /\ is_enabled
    /\ priority[cur] # Priority_Idle /\ tpc[cur] = "run"
    /\ fn_spawner[cur] \in {"none", "start"}
    /\ next_id <= MaxSpawnedHandle
    /\ SpawnThread(pid[cur], opt)
    /\ IF fault' = "none"
       THEN /\ fn_spawner' = [fn_spawner EXCEPT ![t] = "start"]
            /\ arc_count' = [arc_count EXCEPT ![t] = 2]
            /\ join_pc' = [join_pc EXCEPT ![t] = "held"]
       ELSE UNCHANGED <<fn_spawner, arc_count, join_pc>>
    /\ UNCHANGED <<sched_vars, local_vars, sleep_counter, sem, saved_irql, psem,
                   timer_vars, nest_vars, timer_thread_vars, closure_runs, result,
                   dequeued, process_join, print_vars, consume_calls>>

\* _start_thread: let r = (this.start)()
StartThreadCall(p) ==
    LET cur == current[p] IN
    /\ fault = "none" /\ cpc[p] = "run" /\ tpc[cur] = "run"
    /\ fn_spawner[cur] = "start"
    /\ closure_runs' = [closure_runs EXCEPT ![cur] = @ + 1]
    /\ fn_spawner' = [fn_spawner EXCEPT ![cur] = "called"]
    /\ UNCHANGED <<join_frame, sem, fault, result, arc_count, join_pc>>

\* _start_thread: *this.mutex.lock().unwrap() = Some(r)
StartThreadStore(p) ==
    LET cur == current[p] IN
    /\ fault = "none" /\ cpc[p] = "run" /\ tpc[cur] = "run"
    /\ fn_spawner[cur] = "called"
    /\ result' = [result EXCEPT ![cur] = "Some"]
    /\ fn_spawner' = [fn_spawner EXCEPT ![cur] = "stored"]
    /\ UNCHANGED <<join_frame, sem, fault, closure_runs, arc_count, join_pc>>

\* _start_thread: the end of the block drops `this` with its Arc
StartThreadDrop(p) ==
    LET cur == current[p] IN
    /\ fault = "none" /\ cpc[p] = "run" /\ tpc[cur] = "run"
    /\ fn_spawner[cur] = "stored"
    /\ arc_count' = [arc_count EXCEPT ![cur] = @ - 1]
    /\ fn_spawner' = [fn_spawner EXCEPT ![cur] = "dropped"]
    /\ UNCHANGED <<join_frame, sem, fault, closure_runs, result, join_pc>>

\* Scheduler::exit() called by the thread running on p: at the end of
\* _start_thread by a thread of FnSpawner, anywhere by another
SchedulerExit(p) ==
    /\ fn_spawner[current[p]] \in {"none", "dropped"}
    /\ ExitYield(p)

\* ThreadHandle::join returning at once
JoinThreadGet_no_wait(t) ==
    /\ fault = "none" /\ join_pc[t] = "held"
    /\ join_pc' = [join_pc EXCEPT ![t] = "unwrap"]
    /\ UNCHANGED <<join_frame, sem, fault, fn_spawner, closure_runs, result, arc_count>>

\* JoinHandle::join: self.thread.join() up to self.get()
JoinThreadGet(t) ==
    /\ fault = "none" /\ join_pc[t] = "held"
    /\ join_pc' = [join_pc EXCEPT ![t] = IF t \in thread_pool THEN "wait" ELSE "unwrap"]
    /\ UNCHANGED <<join_frame, sem, fault, fn_spawner, closure_runs, result, arc_count>>

\* ThreadHandle::join: thread.sem.wait() returning
JoinSemWait(t) ==
    /\ fault = "none" /\ join_pc[t] = "wait"
    /\ sem[t] > 0
    /\ sem' = [sem EXCEPT ![t] = @ - 1]
    /\ join_pc' = [join_pc EXCEPT ![t] = "unwrap"]
    /\ UNCHANGED <<join_frame, fault, fn_spawner, closure_runs, result, arc_count>>

\* JoinHandle::join: Arc::try_unwrap(self.mutex), into_inner, ok_or(())
JoinTryUnwrap(t) ==
    /\ fault = "none" /\ join_pc[t] = "unwrap"
    /\ IF arc_count[t] = 1
       THEN /\ join_pc' = [join_pc EXCEPT ![t] = IF result[t] = "Some" THEN "Ok" ELSE "Err"]
            /\ arc_count' = [arc_count EXCEPT ![t] = 0]
            /\ fault' = "none"
       ELSE /\ fault' = "join_unreachable"
            /\ UNCHANGED <<join_pc, arc_count>>
    /\ UNCHANGED <<join_frame, sem, fn_spawner, closure_runs, result>>

NextJoin ==
    \/ Start
    \/ \E p \in Cpus :
          \/ \E opt \in JoinSpawnOptions : FnSpawnerSpawn(p, opt)
          \/ StartThreadCall(p)
          \/ StartThreadStore(p)
          \/ StartThreadDrop(p)
          \/ SchedulerExit(p)
          \/ ExitSignal(p)
          \/ ExitDecrement(p)
          \/ ProcessExitSignal(p)
          \/ ProcessExitRemove(p)
          \/ ExitZombie(p)
          \/ Reschedule(p)
          \/ SwitchContextAfter(p)
          \/ RetireCheck(p)
          \/ RetireTestAndSet(p)
          \/ RetireEnqueue(p)
          \/ SchedulerSleepFetchAdd(p)
          \/ SchedulerSleepSwitch(p)
    \/ \E t \in Handles :
          \/ JoinThreadGet(t)
          \/ JoinSemWait(t)
          \/ JoinTryUnwrap(t)

SpecJoin == Init /\ [][NextJoin]_vars

(* ------------------------------ round robin -------------------------- *)
\* One performance core and efficiency cores in state Normal: only processor
\* 1 is not stalled.  The System thread spawns Normal-priority workers that
\* never sleep or exit, and it may exit itself.  Every timer interrupt is
\* delivered, so that quanta run out.

InitRoundRobin ==
    /\ InitScheduler
    /\ core_type = [p \in Cpus |-> IF p = 1 THEN "Main" ELSE "Sub"]
    /\ installed = TRUE
    /\ InitNest
    /\ InitTimerThread
    /\ InitJoin
    /\ InitPrint
    /\ InitCalls

\* SpawnOption::with_priority(Priority::Normal).start(..) by the thread on p
SpawnWorker(p) ==
    LET cur == current[p] IN
    /\ fault = "none" /\ cpc[p] = "run" /\ is_enabled
    /\ priority[cur] # Priority_Idle /\ tpc[cur] = "run"
    /\ SpawnThread(pid[cur],
                   [override |-> TRUE, priority |-> Priority_Normal, new_process |-> FALSE])
    /\ UNCHANGED <<sched_vars, local_vars, sleep_counter, sem, saved_irql, psem,
                   timer_vars, nest_vars, timer_thread_vars, join_vars, dequeued,
                   process_join, print_vars, consume_calls>>

\* Scheduler::exit() called by the System thread
SystemExit(p) ==
    /\ priority[current[p]] = Priority_High
    /\ ExitYield(p)

NextRoundRobin ==
    \/ Start
    \/ \E p \in Cpus :
          \/ SpawnWorker(p)
          \/ SystemExit(p)
          \/ ExitSignal(p)
          \/ ExitDecrement(p)
          \/ ProcessExitSignal(p)
          \/ ProcessExitRemove(p)
          \/ ExitZombie(p)
          \/ SchedulerSleepFetchAdd(p)
          \/ SchedulerSleepSwitch(p)
          \/ RescheduleCall(p)
          \/ SwitchContextAfter(p)
          \/ RetireCheck(p)
          \/ RetireTestAndSet(p)
          \/ RetireEnqueue(p)

SpecRoundRobin == InitRoundRobin /\ [][NextRoundRobin]_vars

(* ------------- reschedule: the dequeue and the context switch ---------- *)

\* the entry of `dequeued` that belongs to processor p
HeldBy(p) == CHOOSE i \in DOMAIN dequeued : dequeued[i].cpu = p

\* `dequeued` without its i-th entry
WithoutEntry(i) == SubSeq(dequeued, 1, i - 1) \o SubSeq(dequeued, i + 1, Len(dequeued))

\* Scheduler::reschedule up to the value of `next`: where a run queue gives
\* a thread, the dequeue alone; the branches that dequeue nothing are whole
RescheduleDequeue(p) ==
    LET cur == current[p]
        pick == reschedule_pick(p)
    IN
    IF ~is_frozen /\ priority[cur] # Priority_Realtime
            /\ pick.from \in {"realtime", "urgent", "normal"}
    THEN /\ fault = "none" /\ cpc[p] = "run"
         /\ InterruptsEnabled(p)
         /\ is_enabled
         /\ quantum' = IF pick.consumed
                        THEN [quantum EXCEPT ![cur] = consume(cur).new]
                        ELSE quantum
         /\ Dequeue(pick.from)
         /\ dequeued' = Append(dequeued,
                                [cpu |-> p, thread |-> pick.next, from |-> pick.from])
         /\ cpc' = [cpc EXCEPT ![p] = "dequeued"]
         /\ UNCHANGED <<sched_vars, current, retired, irql, retire_arg, thread_pool,
                        next_id, priority, attribute, sleep_counter, pid, sem, tpc,
                        saved_irql, process_vars, timer_vars, fault>>
         /\ UNCHANGED <<nest_vars, timer_thread_vars, join_vars, process_join,
                   print_vars, consume_calls>>
    ELSE RescheduleCall(p)

\* Scheduler::reschedule: LocalScheduler::switch_context(local, next)
RescheduleSwitch(p) ==
    /\ fault = "none" /\ cpc[p] = "dequeued"
    /\ SwitchContext(p, dequeued[HeldBy(p)].thread, tpc[current[p]])
    /\ dequeued' = WithoutEntry(HeldBy(p))
    /\ UNCHANGED <<sched_vars, queue_vars, retire_arg, thread_pool, next_id, priority,
                   attribute, sleep_counter, quantum, pid, sem, process_vars, timer_vars>>
    /\ UNCHANGED <<nest_vars, timer_thread_vars, join_vars, process_join,
                   print_vars, consume_calls>>

NextFifo ==
    \/ Start
    \/ \E p \in Cpus :
          \/ SpawnWorker(p)
          \/ RescheduleDequeue(p)
          \/ RescheduleSwitch(p)
          \/ SwitchContextAfter(p)
          \/ RetireCheck(p)
          \/ RetireTestAndSet(p)
          \/ RetireEnqueue(p)

SpecFifo == InitDispatch /\ [][NextFifo]_vars

(* ------------- wake and join on handles that have no record ----------- *)

\* TimerEvent::one_shot(timer).schedule() returning Ok, called by the thread
\* running on p, which goes on running
TimerEventSchedule(p) ==
    LET cur == current[p] IN
    /\ fault = "none" /\ cpc[p] = "run" /\ is_enabled
    /\ priority[cur] # Priority_Idle /\ tpc[cur] = "run"
    /\ timer_events[cur] < MaxTimerEvents
    /\ timer_events' = [timer_events EXCEPT ![cur] = @ + 1]
    /\ UNCHANGED <<sched_vars, queue_vars, local_vars, thread_vars, process_vars, waker,
                   nest_vars, timer_thread_vars, join_vars, dequeued, process_join,
                   print_vars, consume_calls, fault>>

\* ProcessId::join on pid q up to self.get(): None returns at once
ProcessJoinGet(q) ==
    /\ fault = "none" /\ process_join[q] = "none"
    /\ process_join' = [process_join EXCEPT ![q] =
                            IF q \in process_pool THEN "wait" ELSE "returned"]
    /\ UNCHANGED <<sched_vars, queue_vars, local_vars, thread_vars, process_vars,
                   timer_vars, nest_vars, timer_thread_vars, join_vars, dequeued,
                   print_vars, consume_calls,
                   fault>>

\* ProcessId::join: t.sem.wait() returning
ProcessJoinSemWait(q) ==
    /\ fault = "none" /\ process_join[q] = "wait"
    /\ psem[q] > 0
    /\ psem' = [psem EXCEPT ![q] = @ - 1]
    /\ process_join' = [process_join EXCEPT ![q] = "returned"]
    /\ UNCHANGED <<sched_vars, queue_vars, local_vars, thread_vars, process_pool, next_pid,
                   n_threads, process_priority, parent, timer_vars, nest_vars,
                   timer_thread_vars,
                   join_vars, dequeued, print_vars, consume_calls, fault>>

NextReaped ==
    \/ NextJoin
    \/ \E p \in Cpus :
          /\ fn_spawner[current[p]] # "none"
          /\ timer_events[current[p]] = 0 /\ sleep_counter[current[p]] = 0
          /\ TimerEventSchedule(p)
    \/ \E t \in Handles : WakeFetchSub(t)
    \/ WakeAdd
    \/ WakeTestAndSet
    \/ WakeEnqueue
    \/ \E q \in Pids \ {0} :
          \/ ProcessJoinGet(q)
          \/ ProcessJoinSemWait(q)

SpecReaped == InitRoundRobin /\ [][NextReaped]_vars

(* --------------------- filling the Realtime queue ---------------------- *)
\* Threads spawn Realtime threads, as many as MaxRealtimeThreads; the thread
\* records reach that far here.

RealtimeHandles == 1..(NumCpus + 1 + MaxRealtimeThreads)

InitRealtime ==
    /\ InitSchedulerOn(RealtimeHandles)
    /\ core_type = [p \in Cpus |-> "Main"]
    /\ installed = TRUE
    /\ InitNestOn(RealtimeHandles)
    /\ InitTimerThreadOn(RealtimeHandles)
    /\ InitJoinOn(RealtimeHandles)
    /\ InitPrint
    /\ InitCalls

\* SpawnOption::with_priority(Priority::Realtime).start(..) by the thread on p
SpawnRealtime(p) ==
    LET cur == current[p] IN
    /\ fault = "none" /\ cpc[p] = "run" /\ is_enabled
    /\ priority[cur] # Priority_Idle /\ tpc[cur] = "run"
    /\ next_id \in RealtimeHandles
    /\ SpawnThreadCall(pid[cur],
                       [override |-> TRUE, priority |-> Priority_Realtime,
                        new_process |-> FALSE])
    /\ UNCHANGED <<sched_vars, local_vars, sleep_counter, sem, saved_irql, psem,
                   timer_vars, nest_vars, timer_thread_vars, join_vars, dequeued,
                   process_join, print_vars, consume_calls>>

NextRealtime ==
    \/ Start
    \/ \E p \in Cpus :
          \/ SpawnRealtime(p)
          \/ Reschedule(p)
          \/ SwitchContextAfter(p)
          \/ RetireCheck(p)
          \/ RetireTestAndSet(p)
          \/ RetireEnqueue(p)

SpecRealtime == InitRealtime /\ [][NextRealtime]_vars

(* -------------------------- preemption rules -------------------------- *)
\* The round-robin machine whose threads also spawn Realtime threads: a
\* running High or Normal thread meets queued threads of every band while
\* its quantum runs down.

\* SpawnOption::with_priority(Priority::Realtime).start(..) by the thread on
\* p, within the handles of the thread pool
SpawnPreemptor(p) ==
    /\ next_id <= MaxHandle
    /\ SpawnRealtime(p)

NextPreempt ==
    \/ NextRoundRobin
    \/ \E p \in Cpus : SpawnPreemptor(p)

SpecPreempt == InitRoundRobin /\ [][NextPreempt]_vars

(* ---------------------------- quantum budget -------------------------- *)
\* The round-robin machine with threads that only run: every call of
\* Quantum::consume is counted on the thread whose quantum it consumes.

\* reschedule reaches quantum.consume() of the outgoing thread (line 264)
CallsConsume(p) ==
    /\ ~is_frozen
    /\ priority[current[p]] # Priority_Realtime
    /\ reschedule_pick(p).consumed

\* Scheduler::reschedule on processor p, its call of Quantum::consume counted
RescheduleCounted(p) ==
    /\ CallsConsume(p) => consume_calls[current[p]] < MaxConsumeCalls
    /\ RescheduleEffect(p)
    /\ consume_calls' = IF CallsConsume(p)
                        THEN [consume_calls EXCEPT ![current[p]] = @ + 1]
                        ELSE consume_calls

NextQuantum ==
    \/ Start
    \/ \E p \in Cpus :
          \/ SpawnWorker(p)
          \/ RescheduleCounted(p)
          \/ SwitchContextAfter(p)
          \/ RetireCheck(p)
          \/ RetireTestAndSet(p)
          \/ RetireEnqueue(p)

SpecQuantum == InitRoundRobin /\ [][NextQuantum]_vars

(* ------------------------------ spawning ----------------------------- *)
\* Threads that call SpawnOption::start and start_process with every
\* priority override and with none, on the machine of performance cores.

\* the SpawnOption values: with_priority(..) for each Priority and new(),
\* each given to start (new_process = FALSE) and to start_process
SpawnRequests ==
    {[override |-> TRUE, priority |-> prio, new_process |-> np] :
        prio \in Priorities, np \in BOOLEAN}
    \cup {[override |-> FALSE, priority |-> Priority_Idle, new_process |-> np] :
            np \in BOOLEAN}

\* SpawnOption::start / start_process called by the thread running on p,
\* within the handles of the thread pool
SpawnCall(p, opt) ==
    LET cur == current[p] IN
    /\ fault = "none" /\ cpc[p] = "run" /\ is_enabled
    /\ priority[cur] # Priority_Idle /\ tpc[cur] = "run"
    /\ SpawnThread(pid[cur], opt)
    /\ UNCHANGED <<sched_vars, local_vars, sleep_counter, sem, saved_irql, psem,
                   timer_vars, nest_vars, timer_thread_vars, join_vars, dequeued,
                   process_join, print_vars, consume_calls>>

NextSpawn ==
    \/ Start
    \/ \E p \in Cpus :
          \/ \E opt \in SpawnRequests : SpawnCall(p, opt)
          \/ Reschedule(p)
          \/ SwitchContextAfter(p)
          \/ RetireCheck(p)
          \/ RetireTestAndSet(p)
          \/ RetireEnqueue(p)

SpecSpawn == Init /\ [][NextSpawn]_vars

(* ----------------------- printing the statistics ---------------------- *)
\* print_statistics and get_thread_statistics writing the %CPU column of
\* one line, for a process or a thread with a given load.

DigitChars == <<"0", "1", "2", "3", "4", "5", "6", "7", "8", "9">>

\* fmt::Display of an unsigned integer
RECURSIVE Decimal(_)
Decimal(n) ==
    IF n < 10 THEN <<DigitChars[n + 1]>>
    ELSE Append(Decimal(n \div 10), DigitChars[(n % 10) + 1])

\* the format spec {:w} applied to an unsigned integer: right-aligned in a
\* field of at least w characters
Width(w, n) ==
    IF Len(Decimal(n)) >= w THEN Decimal(n)
    ELSE [i \in 1..(w - Len(Decimal(n))) |-> " "] \o Decimal(n)

\* the %CPU column as both printers write it for the value `load`
WriteLoad(l) ==
    LET load0 == l % 10
        load1 == l \div 10
    IN  IF load1 >= 10
        THEN <<" ">> \o Width(4, load1)
        ELSE <<" ">> \o Width(2, load1) \o <<".">> \o Width(1, load0)

\* print_statistics: max_load
max_load == 1000 * NumCpus

InitPrintLoads ==
    /\ InitScheduler
    /\ core_type = [p \in Cpus |-> "Main"]
    /\ installed = TRUE
    /\ InitNest
    /\ InitTimerThread
    /\ InitJoinOn(Handles)
    /\ printed_load \in 0..MaxPrintedLoad
    /\ sb = <<>>
    /\ InitLoads
    /\ InitCalls

print_frame == <<sched_vars, queue_vars, local_vars, thread_vars, process_vars,
                 timer_vars, nest_vars, timer_thread_vars, join_vars, dequeued,
                 process_join, consume_calls, fault>>

\* Scheduler::print_statistics, lines 588-595, for a process whose load is
\* printed_load
PrintStatistics ==
    /\ sb = <<>>
    /\ sb' = WriteLoad(IF printed_load < max_load THEN printed_load ELSE max_load)
    /\ UNCHANGED <<print_frame, printed_load, load_vars>>

\* Scheduler::get_thread_statistics, lines 636-643, for a thread whose load
\* is printed_load
GetThreadStatistics ==
    /\ sb = <<>>
    /\ sb' = WriteLoad(printed_load)
    /\ UNCHANGED <<print_frame, printed_load, load_vars>>

NextPrint ==
    \/ PrintStatistics
    \/ GetThreadStatistics

SpecPrint == InitPrintLoads /\ [][NextPrint]_vars

\* AtomicBitflags<ThreadAttribute>::to_char with ZOMBIE and QUEUED swapped
to_char_queued_first(t) ==
    IF QUEUED \in attribute[t] THEN "R"
    ELSE IF ZOMBIE \in attribute[t] THEN "z"
    ELSE "-"

\* AtomicBitflags<ThreadAttribute>::to_char
to_char(t) ==
    IF ZOMBIE \in attribute[t] THEN "z"
    ELSE IF QUEUED \in attribute[t] THEN "R"
    ELSE "-"

\* get_thread_statistics: status_char
status_char(t) == IF is_asleep(t) THEN "S" ELSE to_char(t)

\* Scheduler::get_thread_statistics, lines 614-634, for thread t: its handle,
\* pid, priority and status character
GetThreadStatus(t) ==
    /\ sb = <<>>
    /\ t \in thread_pool /\ pid[t] # 0
    /\ sb' = <<t, pid[t], priority[t], status_char(t)>>
    /\ UNCHANGED <<print_frame, printed_load, load_vars>>

NextThreadStatus ==
    \/ NextRoundRobin
    \/ \E t \in Handles : GetThreadStatus(t)

SpecThreadStatus == InitRoundRobin /\ [][NextThreadStatus]_vars

(* --------------------- one sleep against one wake --------------------- *)
\* The System thread calls Timer::sleep once; the OneShot event it has
\* registered fires at any moment after that, so that the steps of the one
\* ThreadHandle::wake interleave with those of Scheduler::sleep and of the
\* retire of the sleeping thread in every order.  The Normal-priority
\* workers it spawns keep both processors switching.

\* Timer::sleep up to event.schedule() returning Ok, for a thread that has
\* not created its timer yet
SleepOnce(p) ==
    LET cur == current[p] IN
    /\ fault = "none" /\ cpc[p] = "run" /\ is_enabled
    /\ priority[cur] # Priority_Idle /\ tpc[cur] = "run"
    /\ timer_deadline[cur] = 0
    /\ timer_deadline' = [timer_deadline EXCEPT ![cur] = now + 1]
    /\ timer_events' = [timer_events EXCEPT ![cur] = @ + 1]
    /\ tpc' = [tpc EXCEPT ![cur] = "timer_scheduled"]
    /\ UNCHANGED <<sched_vars, queue_vars, local_vars, thread_pool, next_id, priority,
                   attribute, sleep_counter, quantum, pid, sem, saved_irql, process_vars,
                   waker, fault>>
    /\ UNCHANGED <<nest_vars, now, timer_queue, events, next_timer, sem_timer, tt_pc,
                   async_sem, join_vars, dequeued, process_join, print_vars, consume_calls>>

\* Timer::sleep called by the System thread
SystemSleepOnce(p) ==
    /\ priority[current[p]] = Priority_High
    /\ SleepOnce(p)

NextSleepWake ==
    \/ Start
    \/ \E p \in Cpus :
          \/ SpawnWorker(p)
          \/ SystemSleepOnce(p)
          \/ SchedulerSleepFetchAdd(p)
          \/ SchedulerSleepSwitch(p)
          \/ Reschedule(p)
          \/ SwitchContextAfter(p)
          \/ RetireCheck(p)
          \/ RetireTestAndSet(p)
          \/ RetireEnqueue(p)
    \/ \E t \in Handles : WakeFetchSub(t)
    \/ WakeAdd
    \/ WakeTestAndSet
    \/ WakeEnqueue

SpecSleepWake == Init /\ [][NextSleepWake]_vars

(* ------------------------- sampling the loads ------------------------- *)
\* _statistics_thread turning the raw counters of the threads into loads.

\* let expect = 1_000_000
expect == 1000000

\* the time a thread runs between two calls of update_statistics, which is
\* also the largest raw counter (load0) a thread gathers between two samples
RunTicks == 2
\* the longest measured interval (actual) between two samples
MaxInterval == 4

load_frame == <<sched_vars, queue_vars, local_vars, thread_vars, process_vars,
                timer_vars, fault, nest_vars, timer_thread_vars, join_vars, dequeued,
                process_join, printed_load, sb, consume_calls>>

\* ThreadHandle::update_statistics, which reschedule, sleep and yield_thread
\* call on the current thread before they choose the next one:
\* load0.fetch_add(diff), diff being the time since the thread's last measure
UpdateStatistics(p, diff) ==
    /\ fault = "none" /\ cpc[p] = "run"
    /\ current[p] \in thread_pool
    /\ thread_load0[current[p]] + diff <= RunTicks
    /\ thread_load0' = [thread_load0 EXCEPT ![current[p]] = @ + diff]
    /\ UNCHANGED <<load_frame, thread_load, usage_per_cpu, process_load>>

\* usize::min(load0 * expect / actual1000, 1000), actual1000 = actual * 1000
ThreadLoad(load0, actual) ==
    LET scaled == (load0 * expect) \div (actual * 1000)
    IN  IF scaled < 1000 THEN scaled ELSE 1000

RECURSIVE SumLoads(_, _)
SumLoads(loads, threads) ==
    IF threads = {} THEN 0
    ELSE LET t == CHOOSE x \in threads : TRUE
         IN  loads[t] + SumLoads(loads, threads \ {t})

usage_sum_with_idle(loads) == SumLoads(loads, thread_pool)

\* if thread.priority != Priority::Idle { usage += load }
usage_sum(loads) ==
    SumLoads(loads, {t \in thread_pool : priority[t] # Priority_Idle})

\* one turn of the loop of _statistics_thread after its Timer::sleep
StatisticsLoads(actual) ==
    /\ fault = "none" /\ is_enabled
    /\ UNCHANGED <<is_frozen, core_type, queue_vars, local_vars, thread_vars,
                   process_vars, timer_vars>>
    /\ UNCHANGED <<nest_vars, timer_thread_vars, join_vars, dequeued, process_join,
                   printed_load, sb, consume_calls>>
    /\ LET orphans == {t \in thread_pool : pid[t] \notin process_pool}
           \* the threads the loop reaches: all of them, or those up to the
           \* first whose thread.pid.get() is None
           reached == IF orphans = {} THEN thread_pool
                      ELSE {t \in thread_pool : \A o \in orphans : t <= o}
           loads == [t \in Handles |->
                        IF t \in reached THEN ThreadLoad(thread_load0[t], actual)
                        ELSE thread_load[t]]
           usage == usage_sum(loads)
           total == IF usage < NumCpus * 1000 THEN usage ELSE NumCpus * 1000
           per_cpu == IF usage \div NumCpus < 1000 THEN usage \div NumCpus ELSE 1000
       IN  /\ thread_load0' = [t \in Handles |->
                                  IF t \in reached THEN 0 ELSE thread_load0[t]]
           /\ thread_load' = loads
           /\ IF orphans # {}
              THEN /\ fault' = "unwrap_none"
                   /\ UNCHANGED <<process_load, usage_total, usage_per_cpu,
                                  scheduler_state>>
              ELSE /\ process_load' =
                          [i \in Pids |->
                              IF i \in process_pool
                              THEN SumLoads(loads, {t \in thread_pool : pid[t] = i})
                              ELSE process_load[i]]
                   /\ usage_total' = total
                   /\ usage_per_cpu' = per_cpu
                   /\ scheduler_state' = StateAfterSample(scheduler_state, total)
                   /\ UNCHANGED fault

\* no sample has been taken yet
BeforeSample ==
    /\ thread_load = [t \in Handles |-> 0]
    /\ usage_total = 0

\* the threads are spawned, run and are measured up to the first sample that
\* finds a load
SpawnBeforeSample(p) == BeforeSample /\ SpawnWorker(p)
RescheduleBeforeSample(p) == BeforeSample /\ RescheduleCall(p)
UpdateBeforeSample(p) == BeforeSample /\ UpdateStatistics(p, RunTicks)
FirstSample(actual) == BeforeSample /\ StatisticsLoads(actual)

NextLoad ==
    \/ Start
    \/ \E p \in Cpus :
          \/ SpawnBeforeSample(p)
          \/ RescheduleBeforeSample(p)
          \/ SwitchContextAfter(p)
          \/ RetireCheck(p)
          \/ RetireTestAndSet(p)
          \/ RetireEnqueue(p)
          \/ UpdateBeforeSample(p)
    \/ \E actual \in 1..MaxInterval : FirstSample(actual)

SpecLoad == InitRoundRobin /\ [][NextLoad]_vars

(* ------------------------------ properties ---------------------------- *)

\* a step in which processor p selects its next thread: reschedule with a
\* non-Realtime outgoing thread on a system that is not frozen,
\* Scheduler::sleep, or yield_thread
Selects(p) ==
    \/ Reschedule(p) /\ ~is_frozen /\ priority[current[p]] # Priority_Realtime
    \/ SchedulerSleepSwitch(p)
    \/ ExitYield(p)

\* C1 -- Priority monotonicity: whenever a processor that is neither frozen
\* nor stalled selects its next thread while the Realtime queue is non-empty,
\* the selection takes the head of the Realtime queue, leaves the Urgent and
\* Normal queues as they were, and (unless the switch panics) makes that
\* head the processor's current thread.
C1_PriorityMonotonicity ==
    [][\A p \in Cpus :
        (Selects(p) /\ ~is_stalled_processor(p) /\ queue_realtime # <<>>)
        => /\ queue_realtime' = Tail(queue_realtime)
           /\ queue_urgent' = queue_urgent
           /\ queue_normal' = queue_normal
           /\ fault' = "none" => current'[p] = Head(queue_realtime)]_vars

\* C1 witness: a processor that is not stalled has just dispatched a Realtime
\* thread (it is between the switch and the retirement of the outgoing
\* thread) while a thread was waiting in the Normal queue.
C1_Witness ==
    \E p \in Cpus :
        /\ cpc[p] = "after" /\ ~is_stalled_processor(p)
        /\ priority[current[p]] = Priority_Realtime
        /\ queue_normal # <<>>

\* the three run queues taken together
AllQueued == queue_realtime \o queue_urgent \o queue_normal

\* how many times handle t occurs across the three run queues
Occurrences(t) == Cardinality({i \in DOMAIN AllQueued : AllQueued[i] = t})

\* C2 -- QUEUED exclusivity: in every state reached by any interleaving of
\* spawn, reschedule, Scheduler::sleep, yield, wake and retire on the
\* processors, each thread handle occurs at most once across the three run
\* queues taken together, and every handle in a run queue has QUEUED set.
C2_QueuedExclusivity ==
    \A t \in Handles :
        /\ Occurrences(t) <= 1
        /\ Occurrences(t) = 1 => QUEUED \in attribute[t]

\* C2 witness: the waker's add has won test_and_set(QUEUED) for a thread
\* that a processor is retiring at the same moment, and that thread sits in
\* a run queue once.
C2_Witness ==
    \E p \in Cpus :
        /\ cpc[p] = "retire_test_and_set"
        /\ waker = NoWaker
        /\ Occurrences(retire_arg[p]) = 1

\* thread t is held outside the run queues by the dispatch machinery: it is
\* some processor's current thread, it waits in a `retired` slot, or the
\* caller of retire or add that just won test_and_set(QUEUED) for it has
\* not called _enqueue yet
HeldByDispatch(t) ==
    \/ \E p \in Cpus : current[p] = t
    \/ \E p \in Cpus : retired[p] = t
    \/ \E p \in Cpus : cpc[p] = "retire_enqueue" /\ retire_arg[p] = t
    \/ waker.step = "enqueue" /\ waker.thread = t

C4_NoIdleInRunQueue ==
    /\ \A t \in Handles : Occurrences(t) >= 1 => priority[t] # Priority_Idle
    /\ fault # "enqueue_unreachable"
    /\ \A p \in Cpus : priority[current[p]] = Priority_Idle => current[p] = idle(p)

\* C4 witness: add has been called for a spawned thread of Idle priority, and
\* a processor that has retired its idle thread is running another thread;
\* every run queue is free of both.
C4_Witness ==
    /\ \E t \in thread_pool \ Cpus : priority[t] = Priority_Idle /\ Occurrences(t) = 0
    /\ \E p \in Cpus : cpc[p] = "run" /\ current[p] # idle(p) /\ Occurrences(idle(p)) = 0

\* a step in which processor p dispatches a thread it picked from a run
\* queue: a selection that dequeues and whose switch does not panic
Dispatches(p) ==
    /\ Selects(p)
    /\ Len(AllQueued') < Len(AllQueued)
    /\ fault' = "none"

\* C5 as stated: every time a thread is made a processor's current thread by
\* a dispatch that picked it from a run queue, that thread's sleep_counter is
\* exactly 0 and its ZOMBIE bit is clear.
C5_DispatchedRunnable ==
    [][\A p \in Cpus :
        Dispatches(p) => /\ sleep_counter[current'[p]] = 0
                         /\ ZOMBIE \notin attribute[current'[p]]]_vars

\* thread t has registered its timer event in Timer::sleep and has not yet
\* executed the fetch_add of the Scheduler::sleep that follows
SleepPending(t) ==
    /\ tpc[t] = "timer_scheduled"
    /\ ~\E p \in Cpus : current[p] = t /\ cpc[p] = "sleep_switch"

\* C6 as stated: a thread's sleep_counter is never negative in any reachable
\* state, also when a wake is delivered between the registration of the
\* thread's timer event and its call to Scheduler::sleep.
C6_SleepCounterNonNegative ==
    \A t \in Handles : sleep_counter[t] >= 0

\* C6 amended -- a thread's sleep_counter is never below -1, and it is -1
\* only while the thread has registered its timer event and has not yet
\* executed the increment of the Scheduler::sleep that follows (the event
\* fired first); that increment brings it back to 0.
C6_SleepCounterAtLeastMinusOne ==
    \A t \in Handles :
        /\ sleep_counter[t] >= -1
        /\ sleep_counter[t] = -1 => SleepPending(t)

\* C6 witness: a wake was delivered between the registration of a thread's
\* timer event and its Scheduler::sleep, leaving sleep_counter at -1.
C6_Witness ==
    \E t \in thread_pool : sleep_counter[t] = -1 /\ SleepPending(t) /\ timer_events[t] = 0

\* the processes created by spawn_thread so far
Spawned == 1..(next_pid - 1)

\* the threads of process i that are inside ProcessContextData::exit
InProcessExit(i) ==
    {t \in Handles : pid[t] = i /\ tpc[t] \in {"exit_process_signal", "exit_process_remove"}}

\* the threads of process i whose exit has passed its n_threads.fetch_sub
Exited(i) ==
    {t \in Handles : pid[t] = i /\ tpc[t] \in {"exit_process_signal", "exit_process_remove",
                                                "exit_zombie", "exit_sleep", "exit_dead"}}

\* C7 -- process reaping: for every spawned process, in every reachable state
\* under every interleaving of its threads' exits, the join semaphore has
\* been signaled at most once; while the thread count is above 0 it has not
\* been signaled and the process is in the registry; at most one thread is
\* ever inside ProcessContextData::exit, and only with the count at 0 (it is
\* the exit that took the count from 1 to 0); once the count is 0 and that
\* exit has finished, the semaphore has been signaled exactly once and the
\* process is absent from the registry.
C7_ProcessReaping ==
    \A i \in Spawned :
        /\ psem[i] <= 1
        /\ n_threads[i] > 0 => psem[i] = 0 /\ i \in process_pool
        /\ Cardinality(InProcessExit(i)) <= 1
        /\ InProcessExit(i) # {} => n_threads[i] = 0 /\ i \in process_pool
        /\ \A t \in InProcessExit(i) :
              psem[i] = (IF tpc[t] = "exit_process_signal" THEN 0 ELSE 1)
        /\ n_threads[i] = 0 /\ InProcessExit(i) = {} => psem[i] = 1 /\ i \notin process_pool

\* C7 witness: a process with two threads whose exits have both passed the
\* thread count decrement; it has been signaled once and is gone from the
\* registry.
C7_Witness ==
    \E i \in Spawned :
        /\ Cardinality(Exited(i)) >= 2
        /\ n_threads[i] = 0 /\ psem[i] = 1 /\ i \notin process_pool

\* C8 -- IRQL nesting: a call raise_irql(new) on processor p succeeds exactly
\* when new >= the IRQL of p; it then stores new and returns the previous
\* level; when new < the IRQL of p it ends in the IRQL_NOT_GREATER_OR_EQUAL
\* fault with the stored IRQL unchanged.  A call lower_irql(new) succeeds
\* exactly when new <= the IRQL of p and stores new; when new > the IRQL of p
\* it ends in the IRQL_NOT_LESS_OR_EQUAL fault with the stored IRQL
\* unchanged.  Neither call changes another processor's IRQL.
C8_IrqlNesting ==
    [][\A p \in Cpus : \A new_irql \in Irqls :
        /\ raise_irql(p, new_irql) =>
              /\ IF new_irql >= irql[p]
                 THEN fault' = "none" /\ irql'[p] = new_irql /\ irql_ret'[p] = irql[p]
                 ELSE fault' = "IRQL_NOT_GREATER_OR_EQUAL" /\ irql'[p] = irql[p]
              /\ \A q \in Cpus \ {p} : irql'[q] = irql[q]
        /\ lower_irql(p, new_irql) =>
              /\ IF new_irql <= irql[p]
                 THEN fault' = "none" /\ irql'[p] = new_irql
                 ELSE fault' = "IRQL_NOT_LESS_OR_EQUAL" /\ irql'[p] = irql[p]
              /\ \A q \in Cpus \ {p} : irql'[q] = irql[q]]_vars

\* C8 witness: a processor raised from Passive to Dispatch, a later
\* raise_irql(new) with new below Dispatch ended in the fault, the processor's
\* IRQL is still Dispatch, and another processor is at a level of its own.
C8_Witness ==
    /\ fault = "IRQL_NOT_GREATER_OR_EQUAL"
    /\ \E p \in Cpus :
          /\ irql[p] = Irql_Dispatch /\ irql_ret[p] = Irql_Passive
          /\ \E q \in Cpus \ {p} : irql[q] = Irql_Apc

\* the IRQL that nested Irql::raise calls `frames`, each made at the level the
\* one around it left, put a processor at: Passive outside every call, the
\* level of the innermost call that found a local scheduler otherwise
RECURSIVE LevelOf(_)
LevelOf(frames) ==
    IF frames = <<>> THEN Irql_Passive
    ELSE IF frames[Len(frames)].raised THEN frames[Len(frames)].level
    ELSE LevelOf(SubSeq(frames, 1, Len(frames) - 1))

\* C9 as stated: Irql::raise(level, closure) with level >= the current IRQL
\* runs the closure with the processor's IRQL equal to level, and when it
\* returns the IRQL of the processor the caller runs on is the one that held
\* before the call, for every nesting of Irql::raise calls in the closure.
C9_ClosureRunsAtLevel ==
    \A p \in Cpus :
        cpc[p] = "run" =>
            irql[p] = (IF irql_frames[current[p]] = <<>> THEN Irql_Passive
                       ELSE irql_frames[current[p]][Len(irql_frames[current[p]])].level)

\* C9 amended -- where the processor has a local scheduler when Irql::raise
\* is called, the closure runs with the IRQL of the processor its caller is
\* running on equal to level (also after the caller slept inside the closure
\* and was resumed, on this or another processor), the level saved for the
\* return is the one that held before the call, and when the closure returns
\* that level is restored without a fault, for every nesting.  A call made
\* before Scheduler::start has installed the scheduler runs its closure
\* without changing any IRQL.
C9_RaiseRestores ==
    /\ \A p \in Cpus : cpc[p] = "run" => irql[p] = LevelOf(irql_frames[current[p]])
    /\ \A t \in Handles : \A i \in DOMAIN irql_frames[t] :
          irql_frames[t][i].raised =>
              /\ irql_frames[t][i].old_irql = LevelOf(SubSeq(irql_frames[t], 1, i - 1))
              /\ irql_frames[t][i].old_irql <= irql_frames[t][i].level
    /\ fault # "IRQL_NOT_LESS_OR_EQUAL"

\* C9 witness: a thread that slept inside a closure entered at Apc (its
\* switch saved Apc) has been resumed, the closure has returned, and the
\* processor it now runs on is back at Passive.
C9_Witness ==
    \E p \in Cpus :
        /\ cpc[p] = "run" /\ tpc[current[p]] = "run"
        /\ priority[current[p]] # Priority_Idle
        /\ saved_irql[current[p]] = Irql_Apc
        /\ irql_frames[current[p]] = <<>>
        /\ irql[p] = Irql_Passive

\* C10 -- timer ordering: whenever the timer thread fires an event, no event
\* still held in its list has a strictly earlier deadline, so events that
\* are in the list together are fired in non-decreasing deadline order,
\* whatever the order of their registration.
C10_TimerOrdering ==
    [][(TimerFire /\ events' # events) =>
         \A i \in DOMAIN events : Head(events).deadline <= events[i].deadline]_vars

\* C10 witness: the event registered second has been fired while the event
\* registered first, whose deadline is later, is still held in the list.
C10_Witness ==
    /\ async_sem[2] = 1 /\ async_sem[1] = 0
    /\ \E i \in DOMAIN events : events[i].id = 1 /\ events[i].deadline > 1

\* C11 -- Timer::sleep does not return early: whenever a thread runs its own
\* code outside Timer::sleep, the deadline of its latest Timer::sleep call is
\* no longer alive (the clock has reached it).
C11_SleepNotBeforeDeadline ==
    \A p \in Cpus :
        (cpc[p] = "run" /\ tpc[current[p]] = "run") => is_expired(timer_deadline[current[p]])

\* C12 -- hysteresis: with P performance cores, a statistics sample takes
\* Normal to FullThrottle exactly when the clamped load is greater than
\* (P-1)*1000 + 950 and FullThrottle to Normal exactly when it is less than
\* P*666; a load between the two thresholds leaves the state as it is.
C12_Hysteresis ==
    [][(\E usage \in SampledUsages : StatisticsSample(ClampUsage(usage))) =>
         LET P == num_of_performance_cpus
             load == usage_total'
         IN
         /\ P >= 1
         /\ scheduler_state = "Normal" =>
               /\ scheduler_state' \in {"Normal", "FullThrottle"}
               /\ scheduler_state' = "FullThrottle" <=> load > (P - 1) * 1000 + 950
         /\ scheduler_state = "FullThrottle" =>
               /\ scheduler_state' \in {"Normal", "FullThrottle"}
               /\ scheduler_state' = "Normal" <=> load < P * 666
         /\ (P * 666 <= load /\ load <= (P - 1) * 1000 + 950) =>
               scheduler_state' = scheduler_state]_vars

\* C12 witness: a sample between the thresholds has left FullThrottle on,
\* with a load that would not have entered it.
C12_Witness ==
    /\ scheduler_state = "FullThrottle"
    /\ usage_total >= num_of_performance_cpus * 666
    /\ usage_total <= (num_of_performance_cpus - 1) * 1000 + 950

\* C13 -- end-to-end join: once thread.join() has returned inside
\* JoinHandle::join, the closure of the spawned thread has run exactly once,
\* its result is stored and the spawned thread holds the result cell no
\* longer; join returns Ok of that result and never reaches the unreachable
\* branch; no closure runs twice.
C13_JoinAfterCompletion ==
    /\ fault # "join_unreachable"
    /\ \A t \in Handles :
          /\ closure_runs[t] <= 1
          /\ join_pc[t] # "Err"
          /\ join_pc[t] \in {"unwrap", "Ok"} =>
                /\ closure_runs[t] = 1
                /\ result[t] = "Some"
                /\ fn_spawner[t] = "dropped"
                /\ arc_count[t] = (IF join_pc[t] = "Ok" THEN 0 ELSE 1)

\* C13 witness: join has returned Ok after waiting for a spawned thread
\* whose closure ran, before that thread was reaped.
C13_Witness ==
    \E t \in Handles : join_pc[t] = "Ok" /\ closure_runs[t] = 1 /\ t \in thread_pool

\* the threads that are not idle threads
Workers == {t \in thread_pool : priority[t] # Priority_Idle}

\* the thread processor p has switched away from and not yet put back
InFlight(p) ==
    LET o == IF retired[p] # None THEN retired[p] ELSE retire_arg[p] IN
    IF o = None THEN <<>>
    ELSE IF priority[o] = Priority_Idle THEN <<>> ELSE <<o>>

\* the order in which processor p serves the threads: the Normal queue, then
\* the thread on its way back into it, then the running thread
RoundRobinOrder(p) ==
    queue_normal \o InFlight(p)
        \o (IF priority[current[p]] = Priority_Idle THEN <<>> ELSE <<current[p]>>)

\* the case of C14: p is the one processor that is not stalled, all threads
\* but the idle ones have priority Normal and none is Realtime
RoundRobinCase(p) ==
    /\ fault = "none"
    /\ \A q \in Cpus : is_stalled_processor(q) <=> q # p
    /\ Workers # {}
    /\ \A t \in Workers : priority[t] = Priority_Normal /\ tpc[t] \in {"new", "run"}
    /\ queue_realtime = <<>> /\ queue_urgent = <<>>

\* C14 -- quantum fairness: with N Normal-priority threads that never block,
\* no Realtime thread and one processor that is not stalled, the N threads
\* stand in one order, each exactly once; every reschedule that switches
\* dispatches the first of that order and moves it to the end, and no other
\* step changes the order.  So a thread is dispatched within N switching
\* reschedule calls, and between two dispatches of it every other thread is
\* dispatched exactly once.
C14_RoundRobin ==
    [][\A p \in Cpus :
        (RoundRobinCase(p) /\ RoundRobinCase(p)' /\ Workers' = Workers) =>
            /\ Len(RoundRobinOrder(p)) = Cardinality(Workers)
            /\ {RoundRobinOrder(p)[i] : i \in DOMAIN RoundRobinOrder(p)} = Workers
            /\ IF current'[p] # current[p]
               THEN /\ current'[p] = Head(RoundRobinOrder(p))
                    /\ RoundRobinOrder(p)' =
                           Tail(RoundRobinOrder(p)) \o <<Head(RoundRobinOrder(p))>>
               ELSE RoundRobinOrder(p)' = RoundRobinOrder(p)]_vars

\* C14 witness: three workers, each dispatched at least once, and the one
\* spawned first runs again with the two others behind it in the queue.
C14_Witness ==
    \E p \in Cpus :
        /\ RoundRobinCase(p)
        /\ Cardinality(Workers) >= 3
        /\ cpc[p] = "run"
        /\ \A t \in Workers : tpc[t] = "run" /\ current[p] <= t
        /\ Len(queue_normal) = Cardinality(Workers) - 1

\* C15 as stated: no call of reschedule whose outgoing thread has priority
\* Realtime performs a context switch, in any scheduler state.
C15_RealtimeNeverSwitched ==
    [][\A p \in Cpus :
        (Reschedule(p) /\ priority[current[p]] = Priority_Realtime) =>
            current'[p] = current[p]]_vars

\* C15 amended: a call of reschedule whose outgoing thread has priority
\* Realtime performs no context switch and dequeues nothing unless the system
\* is frozen; on a frozen system it switches to the processor's idle thread.
C15_RealtimeSwitchedOnlyByFreeze ==
    [][\A p \in Cpus :
        (Reschedule(p) /\ priority[current[p]] = Priority_Realtime) =>
            IF is_frozen
            THEN fault' = "none" => current'[p] = idle(p)
            ELSE /\ current'[p] = current[p]
                 /\ UNCHANGED <<queue_vars, cpc, fault>>]_vars

\* C15 witness: a Realtime thread runs on a processor of a system that is not
\* frozen while another thread waits in a run queue.
C15_Witness ==
    \E p \in Cpus :
        /\ cpc[p] = "run" /\ ~is_frozen /\ is_enabled /\ fault = "none"
        /\ priority[current[p]] = Priority_Realtime
        /\ tpc[current[p]] = "run"
        /\ queue_normal # <<>>

\* C16 -- freeze: the frozen flag is never cleared; on a frozen system every
\* reschedule ends, without a panic, with the processor's own idle thread as
\* its current thread, whatever the priority of the outgoing thread; and no
\* step of reschedule, Scheduler::sleep or yield_thread makes another thread
\* than the idle thread current.
C16_FreezeForcesIdle ==
    [][/\ is_frozen => is_frozen'
       /\ \A p \in Cpus :
            /\ (is_frozen /\ Reschedule(p)) => (current'[p] = idle(p) /\ fault' = "none")
            /\ (is_frozen /\ current'[p] # current[p]) => current'[p] = idle(p)]_vars

\* C16 witness: on a frozen system reschedule has just switched a processor
\* from a running Realtime thread to its idle thread.
C16_Witness ==
    \E p \in Cpus :
        /\ is_frozen /\ current[p] = idle(p) /\ cpc[p] = "after"
        /\ retired[p] # None
        /\ priority[retired[p]] = Priority_Realtime
        /\ tpc[retired[p]] = "run"

\* C17 -- stalled processors run only idle: whenever reschedule returns on a
\* processor that is stalled (the system is frozen, or the processor is an
\* efficiency core and the state is not FullThrottle), the processor's
\* current thread is its idle thread: in no state can reschedule return on a
\* stalled processor with another current thread.
C17_StalledRunsIdle ==
    \A p \in Cpus :
        is_stalled_processor(p) =>
            ~ENABLED (Reschedule(p) /\ fault' = "none" /\ current'[p] # idle(p))

\* C17 (amended) -- whenever reschedule returns on a stalled processor, the
\* processor's current thread is its idle thread, unless the system is not
\* frozen and the outgoing thread is Realtime: then reschedule returns with
\* that thread still current, stalled processor or not.
C17_StalledRunsIdleUnlessRealtime ==
    \A p \in Cpus :
        is_stalled_processor(p) =>
            IF ~is_frozen /\ priority[current[p]] = Priority_Realtime
            THEN ~ENABLED (Reschedule(p) /\ current'[p] # current[p])
            ELSE ~ENABLED (Reschedule(p) /\ fault' = "none" /\ current'[p] # idle(p))

\* C17 witness: an efficiency core that became stalled while it ran a thread
\* below Realtime has been switched to its idle thread by reschedule, and
\* the thread it ran is being retired.
C17_Witness ==
    \E p \in Cpus :
        /\ core_type[p] = "Sub" /\ scheduler_state = "Normal" /\ ~is_frozen
        /\ current[p] = idle(p) /\ cpc[p] = "retire_check"
        /\ retire_arg[p] \in thread_pool
        /\ priority[retire_arg[p]] \notin {Priority_Idle, Priority_Realtime}

\* the run queue of a band
RunQueue(q) ==
    CASE q = "realtime" -> queue_realtime
      [] q = "urgent" -> queue_urgent
      [] OTHER -> queue_normal

\* every step leaves run queue q alone, appends one handle to it, or takes
\* its oldest handle
FifoStep(q) ==
    \/ RunQueue(q)' = RunQueue(q)
    \/ \E t \in Handles : RunQueue(q)' = Append(RunQueue(q), t)
    \/ RunQueue(q) # <<>> /\ RunQueue(q)' = Tail(RunQueue(q))

\* reschedule on p hands the thread it dequeued to switch_context, and that
\* makes it the processor's current thread
SwitchesToDequeued(p) ==
    (RescheduleSwitch(p) /\ fault' = "none") => current'[p] = dequeued[HeldBy(p)].thread

\* C18 -- FIFO within a band: for two threads A and B enqueued on the same
\* run queue, A before B, A is dequeued and dispatched before B, for every
\* interleaving of the processors that dequeue: a run queue loses only its
\* oldest handle, and when reschedule makes a dequeued thread current no
\* thread dequeued earlier from the same queue is still waiting for its
\* context switch.
C18_FifoDispatch ==
    [][/\ \A q \in {"realtime", "urgent", "normal"} : FifoStep(q)
       /\ \A p \in Cpus :
            /\ SwitchesToDequeued(p)
            /\ (RescheduleSwitch(p) /\ fault' = "none") =>
                    \A i \in 1..(HeldBy(p) - 1) :
                        dequeued[i].from # dequeued[HeldBy(p)].from]_vars

\* C18 (amended) -- for two threads A and B enqueued on the same run queue,
\* A before B, A is dequeued before B, for every interleaving of the
\* processors that dequeue, and each processor makes the thread it dequeued
\* its current thread before it dequeues another; the context switches of
\* two processors are not ordered.
C18_FifoDequeue ==
    [][/\ \A q \in {"realtime", "urgent", "normal"} : FifoStep(q)
       /\ \A p \in Cpus :
            /\ SwitchesToDequeued(p)
            /\ Cardinality({i \in DOMAIN dequeued' : dequeued'[i].cpu = p}) <= 1]_vars

\* C18 witness: two processors have each dequeued a thread from the same run
\* queue and neither has made its thread current yet.
C18_Witness ==
    /\ Len(dequeued) = 2
    /\ dequeued[1].from = dequeued[2].from
    /\ dequeued[1].cpu # dequeued[2].cpu

\* C19 -- waking a thread whose record has been removed from the thread
\* registry is a silent no-op: ThreadHandle::wake on a reaped handle changes
\* no sleep counter, no attribute bit and no run queue, starts no
\* Scheduler::add and raises no fault; ThreadHandle::join and
\* ProcessId::join on an absent handle return at once, without waiting on
\* the semaphore.
C19_ReapedHandleNoOp ==
    [][/\ \A t \in Handles :
            (WakeFetchSub(t) /\ t \notin thread_pool) =>
                /\ UNCHANGED <<sleep_counter, attribute, queue_vars, thread_pool>>
                /\ waker' = NoWaker
                /\ fault' = "none"
       /\ \A t \in Handles :
            (JoinThreadGet(t) /\ t \notin thread_pool) =>
                /\ join_pc'[t] = "unwrap"
                /\ UNCHANGED <<sem, thread_pool>>
                /\ fault' = "none"
       /\ \A q \in Pids :
            (ProcessJoinGet(q) /\ q \notin process_pool) =>
                /\ process_join'[q] = "returned"
                /\ UNCHANGED <<psem, process_pool>>
                /\ fault' = "none"]_vars

\* C19 witness: a reaped thread has a OneShot timer event left to fire, the
\* holder of a reaped thread's JoinHandle has come back from
\* ThreadHandle::join with the thread's exit signal unconsumed, and
\* ProcessId::join has returned on a removed process whose exit signal is
\* unconsumed.
C19_Witness ==
    /\ \E t \in Handles :
          t \notin thread_pool /\ t < next_id /\ timer_events[t] > 0 /\ waker = NoWaker
    /\ \E t \in Handles :
          t \notin thread_pool /\ join_pc[t] \in {"unwrap", "Ok", "Err"} /\ sem[t] > 0
    /\ \E q \in Pids :
          q \notin process_pool /\ process_join[q] = "returned" /\ psem[q] > 0

\* C20 -- run-queue exhaustion cannot happen: for any number of threads
\* spawned and any sequence of admit and retire operations, an enqueue onto
\* the Realtime queue (capacity 63) or the Normal queue (capacity 255) never
\* finds the queue full, so the unwrap in _enqueue never faults.
C20_NoQueueFull == fault # "queue_full"

\* the characters of a written column that are not padding
Unpadded(text) == SelectSeq(text, LAMBDA c : c # " ")

\* C21 -- CPU percentage formatting: every load L in per mille is rendered
\* with one decimal place (L/10 '.' L%10) whenever L is below 100 %
\* (L < 1000), and as a plain integer only when L is at least 100 %.
C21_OneDecimalBelowHundredPercent ==
    sb # <<>> =>
        IF printed_load < 1000
        THEN Unpadded(sb) = Decimal(printed_load \div 10) \o <<".">>
                                \o Decimal(printed_load % 10)
        ELSE \A i \in DOMAIN sb : sb[i] # "."

\* the STATE character as a function of the thread's state
CharOfState(t) ==
    IF sleep_counter[t] > 0 THEN "S"
    ELSE IF ZOMBIE \in attribute[t] THEN "z"
    ELSE IF QUEUED \in attribute[t] THEN "R"
    ELSE "-"

\* thread t is the current thread of a processor and its code is running
Running(t) == tpc[t] = "run" /\ \E p \in Cpus : current[p] = t /\ cpc[p] = "run"

\* C22 -- the STATE character is a function of the thread's state: 'S' when
\* sleep_counter > 0 (before every attribute, ZOMBIE included), otherwise
\* 'z' when ZOMBIE is set, otherwise 'R' when QUEUED is set, otherwise '-';
\* a thread that is running on a processor is reported as '-'.
C22_StateChar ==
    [][\A t \in Handles :
        GetThreadStatus(t) =>
            /\ sb'[4] = CharOfState(t)
            /\ Running(t) => sb'[4] = "-"]_vars

\* C22 (amended) -- the STATE character is 'S' when sleep_counter > 0,
\* otherwise 'z' when ZOMBIE is set, otherwise 'R' when QUEUED is set,
\* otherwise '-'; a thread that is running on a processor, not asleep and
\* not a zombie, is reported as 'R', because it keeps QUEUED until it is
\* retired.
C22_StateCharRunningQueued ==
    [][\A t \in Handles :
        GetThreadStatus(t) =>
            /\ sb'[4] = CharOfState(t)
            /\ (Running(t) /\ sleep_counter[t] <= 0 /\ ZOMBIE \notin attribute[t])
                    => sb'[4] = "R"]_vars

\* C22 witness: the line of a thread that is running on a processor and
\* sits in no run queue has been written with 'R'.
C22_Witness ==
    /\ sb # <<>>
    /\ sb[4] = "R"
    /\ Running(sb[1])
    /\ Occurrences(sb[1]) = 0

\* C23 -- no double retirement: on every processor the retiring slot is
\* empty whenever switch_context is about to record an outgoing thread, so
\* the assertion in set_retired never fails, and the post-switch hook (or
\* the new-thread trampoline) always finds one retiring handle to take, on
\* whichever processor the resumed thread was switched out.
C23_NoDoubleRetirement ==
    /\ fault # "assert_retired_none"
    /\ \A p \in Cpus : (cpc[p] = "after") <=> (retired[p] # None)

\* C23 witness: a thread that has run before is resumed on one processor,
\* which holds its retiring handle, while the processor that thread was
\* switched out on has taken it from its own slot and is still retiring it.
C23_Witness ==
    \E p \in Cpus : \E q \in Cpus \ {p} :
        /\ cpc[p] = "after" /\ retired[p] # None
        /\ tpc[current[p]] # "new" /\ priority[current[p]] # Priority_Idle
        /\ retire_arg[q] = current[p]
        /\ cpc[q] = "retire_check" /\ retired[q] = None

\* the part of the state C24 names: the current thread, the retiring slot,
\* the IRQL, the three run queues and the quanta
scheduling_state == <<current, retired, irql, queue_vars, quantum>>

\* C24 -- when the system is not frozen, a reschedule whose outgoing thread
\* is Realtime returns with the processor's current thread, its retiring
\* slot, its IRQL, the three run queues and the thread's Quantum unchanged,
\* even if the Realtime queue holds another Realtime thread: no reschedule
\* of such a thread can end in a state that differs in any of them.
C24_RealtimeRescheduleNoEffect ==
    \A p \in Cpus :
        (~is_frozen /\ priority[current[p]] = Priority_Realtime) =>
            ~ENABLED (RescheduleCall(p) /\ scheduling_state' # scheduling_state)

\* C24 witness: a Realtime thread is current, another Realtime thread waits
\* on the Realtime queue, and the processor can take a reschedule.
C24_Witness ==
    \E p \in Cpus :
        /\ ~is_frozen /\ priority[current[p]] = Priority_Realtime
        /\ queue_realtime # <<>>
        /\ priority[Head(queue_realtime)] = Priority_Realtime
        /\ ENABLED RescheduleCall(p)

\* C25 -- preemption rule: on a processor that is neither stalled nor frozen,
\* a reschedule takes a thread from the Urgent queue without consuming the
\* quantum only if the outgoing priority is below High, and from the Normal
\* queue without consuming the quantum only if it is below Normal; an
\* outgoing thread of priority Normal or High whose quantum this call does
\* not exhaust is switched away from exactly when the Realtime queue is
\* non-empty, and otherwise stays current with the Normal queue untouched.
C25_PreemptionRule ==
    [][\A p \in Cpus :
          LET cur == current[p]
              prio == priority[cur]
          IN  (RescheduleCall(p) /\ ~is_frozen /\ ~is_stalled_processor(p)
                  /\ prio # Priority_Realtime) =>
                /\ (queue_urgent' # queue_urgent /\ quantum' = quantum)
                        => prio < Priority_High
                /\ (queue_normal' # queue_normal /\ quantum' = quantum)
                        => prio < Priority_Normal
                /\ (prio \in {Priority_Normal, Priority_High} /\ ~consume(cur).result)
                        => IF queue_realtime # <<>>
                           THEN current'[p] = Head(queue_realtime)
                           ELSE /\ current'[p] = cur
                                /\ queue_normal' = queue_normal
                                /\ quantum'[cur] = quantum[cur] - 1]_vars

\* C25 witness: a Normal thread is still current after a reschedule that
\* shortened its quantum, while another thread waits on the Normal queue
\* and the Realtime queue is empty.
C25_Witness ==
    \E p \in Cpus :
        /\ ~is_stalled_processor(p) /\ cpc[p] = "run"
        /\ priority[current[p]] = Priority_Normal
        /\ quantum[current[p]] < QuantumOf(Priority_Normal)
        /\ queue_normal # <<>> /\ queue_realtime = <<>>

\* the candidate _next_thread gives on a processor that is not stalled
NextCandidate == (queue_realtime \o queue_urgent \o queue_normal)

\* C26 -- quantum budget: the counter of a Quantum of default d stays within
\* 1..d; consume returns true on exactly the calls d, 2d, 3d, ... and that
\* call resets the counter to d; reschedule consumes the outgoing thread's
\* quantum only when the priority rules took no candidate, and on exhaustion
\* switches to the next queued candidate if there is one and otherwise keeps
\* the current thread.
C26_QuantumBudget ==
    /\ [](\A t \in thread_pool :
            LET d == QuantumOf(priority[t])
            IN  /\ 1 <= quantum[t] /\ quantum[t] <= d
                /\ quantum[t] = d - (consume_calls[t] % d))
    /\ [][\A p \in Cpus :
            LET cur == current[p]
                prio == priority[cur]
                d == QuantumOf(prio)
                n == consume_calls'[cur]
            IN  (RescheduleCounted(p) /\ n # consume_calls[cur]) =>
                  /\ ~is_stalled_processor(p)
                  /\ queue_realtime = <<>>
                  /\ prio < Priority_High => queue_urgent = <<>>
                  /\ prio < Priority_Normal => queue_normal = <<>>
                  /\ consume(cur).result <=> (n % d = 0)
                  /\ IF n % d = 0
                     THEN /\ quantum'[cur] = d
                          /\ current'[p] = IF NextCandidate = <<>> THEN cur
                                           ELSE Head(NextCandidate)
                     ELSE /\ current'[p] = cur
                          /\ UNCHANGED queue_vars]_vars

\* C26 witness: a Normal thread's quantum has been consumed twenty times, the
\* twentieth call has reset it to 10 and switched to a queued thread.
C26_Witness ==
    \E p \in Cpus : \E t \in thread_pool :
        /\ priority[t] = Priority_Normal
        /\ consume_calls[t] = 2 * QuantumOf(Priority_Normal)
        /\ quantum[t] = QuantumOf(Priority_Normal)
        /\ retired[p] = t /\ current[p] # t

\* the `next` that reschedule on processor p passes to switch_context, None
\* where it calls none
RescheduleTarget(p) ==
    IF is_frozen THEN idle(p)
    ELSE IF priority[current[p]] = Priority_Realtime THEN None
    ELSE reschedule_pick(p).next

\* the `next` that Scheduler::sleep on processor p passes to switch_context
SleepTarget(p) ==
    IF _next_thread(p).from = "none" THEN idle(p) ELSE _next_thread(p).next

\* what C27 says the fast path leaves alone, the run queues apart
switch_state == <<current, retired, irql, attribute>>

\* C27 -- context-switch fast path: switch_context(local, next) with next
\* equal to the processor's current thread performs no switch: the current
\* thread, the retiring slot, every thread attribute and the IRQL are after
\* the call what they were before it, and so is every run queue (where the
\* caller took `next` from a run queue, the queues are as its dequeue left
\* them).  No call with next = current can end in a state that differs.
C27_FastPath ==
    \A p \in Cpus :
        /\ RescheduleTarget(p) = current[p] =>
              ~ENABLED (RescheduleCall(p) /\ switch_state' # switch_state)
        /\ (RescheduleTarget(p) = current[p] /\ current[p] = idle(p)) =>
              ~ENABLED (RescheduleCall(p) /\ queue_vars' # queue_vars)
        /\ SleepTarget(p) = current[p] =>
              ~ENABLED (SchedulerSleepSwitch(p) /\ switch_state' # switch_state)

\* C27 witness: a stalled processor whose current thread is its idle thread
\* can take a reschedule, which calls switch_context(local, local.idle),
\* while threads wait on a run queue.
C27_Witness ==
    \E p \in Cpus :
        /\ RescheduleTarget(p) = current[p] /\ current[p] = idle(p)
        /\ AllQueued # <<>>
        /\ ENABLED RescheduleCall(p)

\* processor p is between the store of `current` in _switch_context and the
\* lower_irql of _switch_context_after / setup_new_thread
SwitchInFlight(p) ==
    cpc[p] \in {"after", "retire_check", "retire_test_and_set", "retire_enqueue"}

\* C28 -- IRQL across a context switch: the processor is at Dispatch while a
\* switch is in flight; the outgoing thread keeps the level it had when it
\* began the switch; when a thread resumes, the processor it resumes on is
\* lowered to the level that thread had when it began its own switch, Passive
\* for a brand-new thread; and that lower_irql never ends in the
\* IRQL_NOT_LESS_OR_EQUAL fault, on whichever processor the thread resumes.
C28_IrqlAcrossSwitch ==
    /\ [](/\ fault # "IRQL_NOT_LESS_OR_EQUAL"
          /\ \A p \in Cpus : SwitchInFlight(p) => irql[p] = Irql_Dispatch)
    /\ [][\A p \in Cpus :
            /\ (~SwitchInFlight(p) /\ cpc'[p] = "after") =>
                  saved_irql'[current[p]] = irql[p]
            /\ (SwitchInFlight(p) /\ cpc'[p] = "run") =>
                  irql'[p] = (IF tpc[current[p]] = "new" THEN Irql_Passive
                              ELSE saved_irql[current[p]])]_vars

\* C28 witness: a thread that began its switch at Apc, inside an Irql::raise
\* closure, is being resumed on one processor, still at Dispatch, while the
\* processor it was switched out on has not finished retiring it.
C28_Witness ==
    \E p \in Cpus : \E q \in Cpus \ {p} : \E t \in thread_pool :
        /\ current[p] = t /\ cpc[p] = "after" /\ tpc[t] # "new"
        /\ retire_arg[q] = t /\ SwitchInFlight(q)
        /\ saved_irql[t] = Irql_Apc /\ irql_frames[t] # <<>>

\* the run queue C29 names for a priority band
BandOf(prio) ==
    CASE prio = Priority_Realtime -> "realtime"
      [] prio = Priority_High -> "urgent"
      [] OTHER -> "normal"

\* this step appends handle t once to run queue q and leaves the other two alone
EnqueuedOnceOn(q, t) ==
    /\ queue_realtime' = IF q = "realtime" THEN Append(queue_realtime, t) ELSE queue_realtime
    /\ queue_urgent' = IF q = "urgent" THEN Append(queue_urgent, t) ELSE queue_urgent
    /\ queue_normal' = IF q = "normal" THEN Append(queue_normal, t) ELSE queue_normal

\* this step is the admission (Scheduler::add) of the thread it has created
AdmitsNew(t) ==
    /\ next_id = t /\ next_id' = t + 1 /\ fault' = "none"
    /\ IF priority'[t] = Priority_Idle
       THEN UNCHANGED queue_vars
       ELSE QUEUED \in attribute'[t] /\ EnqueuedOnceOn(BandOf(priority'[t]), t)

AdmittedOnce(t) == \E q \in {"realtime", "urgent", "normal"} : EnqueuedOnceOn(q, t)

\* this step is a spawn by a thread of process cpid with SpawnOption opt that
\* does what C30 says of it, the admission to a run queue apart
SpawnsAsStated(cpid, opt) ==
    LET t == next_id
        owner == pid'[t]
    IN  /\ t \notin thread_pool /\ tpc[t] = "absent" /\ next_id' = t + 1
        /\ thread_pool' = thread_pool \cup {t}
        /\ n_threads' = [n_threads EXCEPT ![owner] = @ + 1]
        /\ priority'[t] = IF opt.override THEN opt.priority ELSE process_priority'[owner]
        /\ IF opt.new_process
           THEN /\ owner \notin process_pool
                /\ process_pool' = process_pool \cup {owner}
                /\ parent'[owner] = cpid
           ELSE /\ owner = cpid
                /\ process_pool' = process_pool

\* the SpawnOption of Scheduler::start: with_priority(High), start_process
SystemOption == [override |-> TRUE, priority |-> Priority_High, new_process |-> TRUE]

\* C30 as stated: each successful start / start_process / spawn issues a
\* fresh handle, inserts one thread record, increases the owning process's
\* thread count by one, gives the thread the priority override if present
\* and otherwise its process's priority, and admits the thread to a run
\* queue exactly once; start_process also inserts one process record whose
\* parent is the caller's process, and the thread belongs to it.
C30_SpawnAdmitsOnce ==
    [][/\ (Start /\ fault' = "none") =>
              SpawnsAsStated(0, SystemOption) /\ AdmittedOnce(next_id)
       /\ \A p \in Cpus : \A opt \in SpawnRequests :
              (SpawnCall(p, opt) /\ fault' = "none") =>
                  SpawnsAsStated(pid[current[p]], opt) /\ AdmittedOnce(next_id)]_vars

\* this step admits the new thread t as Scheduler::add does
AdmittedUnlessIdle(t) ==
    IF priority'[t] = Priority_Idle
    THEN UNCHANGED queue_vars /\ QUEUED \notin attribute'[t]
    ELSE AdmittedOnce(t) /\ QUEUED \in attribute'[t]

\* C30 (amended) -- each successful start / start_process / spawn issues a
\* fresh handle, inserts one thread record, increases the owning process's
\* thread count by one, gives the thread the priority override if present
\* and otherwise its process's priority, and admits the thread to a run
\* queue exactly once unless that priority is Idle: an Idle thread gets its
\* record and is put on no run queue.  start_process also inserts one
\* process record whose parent is the caller's process, and the thread
\* belongs to it.
C30_SpawnAdmitsUnlessIdle ==
    [][/\ (Start /\ fault' = "none") =>
              SpawnsAsStated(0, SystemOption) /\ AdmittedUnlessIdle(next_id)
       /\ \A p \in Cpus : \A opt \in SpawnRequests :
              (SpawnCall(p, opt) /\ fault' = "none") =>
                  SpawnsAsStated(pid[current[p]], opt) /\ AdmittedUnlessIdle(next_id)]_vars

\* C30 witness: a thread spawned with no override into a new process of
\* priority Normal, whose parent is the System process, waits on a run
\* queue, and a thread spawned with the override Idle has a record and is
\* on no run queue.
C30_Witness ==
    \E t, u \in thread_pool :
        /\ tpc[t] = "new" /\ pid[t] = 2 /\ parent[2] = 1 /\ 2 \in process_pool
        /\ priority[t] = Priority_Normal /\ n_threads[2] = 1
        /\ Occurrences(t) = 1
        /\ u > NumCpus /\ priority[u] = Priority_Idle /\ tpc[u] = "new"
        /\ Occurrences(u) = 0

\* how far thread t is in ThreadContextData::exit: 0 outside it, 1 before
\* sem.signal(), 2 before n_threads.fetch_sub, 3 inside process.exit(), 4
\* before attribute.insert(ZOMBIE), 5 before the last Scheduler::sleep, 6
\* once it has switched away in it
ExitStage(t) ==
    CASE tpc[t] = "exit_signal" -> 1
      [] tpc[t] = "exit_decrement" -> 2
      [] tpc[t] \in {"exit_process_signal", "exit_process_remove"} -> 3
      [] tpc[t] = "exit_zombie" -> 4
      [] tpc[t] = "exit_sleep" -> 5
      [] tpc[t] = "exit_dead" -> 6
      [] OTHER -> 0

\* the threads spawn_thread has counted in process i and whose exit has not
\* yet passed its n_threads.fetch_sub
CountedIn(i) ==
    {t \in Handles \ Cpus : tpc[t] # "absent" /\ pid[t] = i /\ ExitStage(t) <= 2}

\* C31 -- exit ordering: an exiting thread signals its exit semaphore (and
\* releases its personality), then decrements its process's thread count
\* and, if it was the last thread, exits the process, then sets ZOMBIE, then
\* gives up the processor; the semaphore is signaled exactly once per
\* thread, before ZOMBIE is set and before the record leaves the registry.
C31_ExitOrdering ==
    /\ [](\A t \in Handles :
            /\ sem[t] = (IF ExitStage(t) >= 2 THEN 1 ELSE 0)
            /\ (ZOMBIE \in attribute[t]) <=> (ExitStage(t) >= 5)
            /\ (tpc[t] # "absent" /\ t \notin thread_pool) => ExitStage(t) >= 5
            /\ ExitStage(t) = 3 => n_threads[pid[t]] = 0)
    /\ [](\A i \in Pids : n_threads[i] = Cardinality(CountedIn(i)))
    /\ [][\A t \in Handles :
            \/ ExitStage(t)' = ExitStage(t)
            \/ ExitStage(t)' = ExitStage(t) + 1
            \/ ExitStage(t) = 2 /\ ExitStage(t)' = 4 /\ n_threads'[pid[t]] > 0]_vars

\* C31 witness: the last thread of a process has gone through its whole
\* exit: signaled once, its process exited, ZOMBIE set, switched away and
\* removed from the registry.
C31_Witness ==
    \E t \in Handles :
        /\ ExitStage(t) = 6 /\ sem[t] = 1 /\ t \notin thread_pool
        /\ ZOMBIE \in attribute[t]
        /\ n_threads[pid[t]] = 0 /\ psem[pid[t]] = 1 /\ pid[t] \notin process_pool

\* Scheduler::retire is dropping the record of thread t on some processor
\* that has switched away from it
RetireRemoves(t) ==
    \E p \in Cpus :
        /\ cpc[p] = "retire_check" /\ retire_arg[p] = t /\ current[p] # t
        /\ RetireDecision(t) = "remove"

\* a ZOMBIE thread is put on no run queue
ZombieNotEnqueued ==
    \A t \in Handles : ZOMBIE \in attribute[t] => Occurrences(t)' <= Occurrences(t)

\* a ZOMBIE thread that a processor has switched away from is not made
\* current again
ZombieNotResumed ==
    \A t \in Handles : \A p \in Cpus :
        (ZOMBIE \in attribute[t] /\ current'[p] = t) => current[p] = t

\* a record leaves the registry only in Scheduler::retire of a ZOMBIE thread
RemovedByRetireOnly ==
    \A t \in Handles :
        (t \in thread_pool /\ t \notin thread_pool') =>
            ZOMBIE \in attribute[t] /\ RetireRemoves(t)

\* C32 -- zombie reaping: once a thread has set ZOMBIE it is never enqueued
\* on a run queue and never made current again, and its record is removed
\* from the registry only by retire, after the thread has been switched
\* away from.
C32_ZombieReaping ==
    [][ZombieNotEnqueued /\ ZombieNotResumed /\ RemovedByRetireOnly]_vars

\* the registered timer events the timer thread has not fired yet
PendingEvents ==
    {timer_queue[i].id : i \in DOMAIN timer_queue} \cup {events[i].id : i \in DOMAIN events}

\* TimerEvent::fire of event e happens in this step
Fires(e) == async_sem'[e] # async_sem[e]

\* C33 -- timer liveness: with the timer thread scheduled fairly and some
\* processor calling reschedule again and again, every registered timer
\* event is eventually fired, exactly once and only when its deadline has
\* passed; no signal between _schedule_timer and the timer thread's loop is
\* lost.
C33_TimerLiveness ==
    /\ \A e \in EventIds : (e \in PendingEvents) ~> (async_sem[e] = 1 /\ e \notin PendingEvents)
    /\ [](\A e \in EventIds : async_sem[e] <= 1 /\ ~(async_sem[e] = 1 /\ e \in PendingEvents))
    /\ [][\A e \in EventIds :
            Fires(e) => /\ events # <<>> /\ Head(events).id = e
                        /\ is_expired(Head(events).deadline)
                        /\ async_sem'[e] = 1 /\ e \notin PendingEvents']_vars

\* C33 witness: one event has been fired, and the timer thread is blocked
\* with no signal left while it holds an event whose deadline has not
\* passed yet and a further event has just been put on timer_queue.
C33_Witness ==
    /\ \E e \in EventIds : async_sem[e] = 1
    /\ tt_pc = "wait" /\ sem_timer = 1
    /\ events # <<>> /\ is_alive(Head(events).deadline)
    /\ timer_queue # <<>>

\* the deadlines of the events the timer thread holds in its list
HeldDeadlines == {events[i].deadline : i \in DOMAIN events}

\* the timer thread is blocked in sem_timer.wait()
TimerBlocked == tt_pc = "wait"

\* Scheduler::reschedule called now would signal sem_timer (line 240)
RescheduleSignals == ENABLED RescheduleTimerCheck

\* reschedule is called with the scheduler enabled and room in the model's
\* count of signals
RescheduleCallable == fault = "none" /\ is_enabled /\ sem_timer < MaxSignals

\* while the timer thread is blocked, next_timer is the earliest deadline
\* it holds
PublishedIsEarliest ==
    (TimerBlocked /\ events # <<>>) =>
        /\ next_timer \in HeldDeadlines
        /\ \A d \in HeldDeadlines : next_timer <= d

\* while the timer thread is blocked holding events, reschedule signals
\* exactly when one of them has expired
SignalsWhenHeldExpired ==
    (TimerBlocked /\ events # <<>> /\ RescheduleCallable) =>
        (RescheduleSignals <=> \E d \in HeldDeadlines : is_expired(d))

\* with no event pending, reschedule does not signal
SilentWhenNothingPending ==
    (PendingEvents = {} /\ RescheduleCallable) => ~RescheduleSignals

\* C34 -- published deadline: whenever the timer thread blocks, next_timer
\* equals the earliest deadline among the events still pending in its
\* list, and reschedule signals the timer semaphore exactly when a still
\* pending event has an expired deadline; when no timer event is pending
\* (before the first registration or after the last pending event has
\* fired) reschedule does not signal.
C34_PublishedDeadline ==
    PublishedIsEarliest /\ SignalsWhenHeldExpired /\ SilentWhenNothingPending

\* the OneShot event of thread t with this deadline
OneShot(t, deadline) == [deadline |-> deadline, thread |-> t]

\* Timer::sleep returns on processor p without a registration and without
\* Scheduler::sleep
ReturnsUnslept(p) ==
    LET t == current[p] IN
    /\ tpc'[t] = "run" /\ current'[p] = t
    /\ UNCHANGED <<timer_queue, sem_timer, sleep_counter>>

\* event.schedule() fails on processor p: the event, the queue and the
\* semaphore are as before and the thread yields the processor to retry
FailsAndYields(p) ==
    LET t == current[p] IN
    /\ UNCHANGED <<timer_queue, sem_timer, sleep_counter>>
    /\ tpc[t] = "timer_retry" => timer_deadline'[t] = timer_deadline[t]
    /\ tpc'[t] = "timer_retry"
    /\ current'[p] # t /\ retired'[p] = t

\* event.schedule() succeeds on processor p: the event is at the tail of
\* the queue, the semaphore is signaled and Scheduler::sleep comes next
Registers(p) ==
    LET t == current[p] IN
    /\ timer_queue' = Append(timer_queue, OneShot(t, timer_deadline'[t]))
    /\ sem_timer' = sem_timer + 1
    /\ tpc'[t] = "timer_scheduled" /\ current'[p] = t
    /\ UNCHANGED sleep_counter

\* what one turn of the loop of Timer::sleep does on processor p
SleepTurn(p) ==
    LET t == current[p]
        deadline == timer_deadline'[t]
    IN
    IF ~is_alive(deadline) THEN ReturnsUnslept(p)
    ELSE IF Len(timer_queue) >= TIMER_QUEUE_CAPACITY THEN FailsAndYields(p)
    ELSE Registers(p)

\* thread t is inside Scheduler::sleep on processor p, between its
\* fetch_add and its switch_context
InSchedulerSleep(p, t) == current[p] = t /\ cpc[p] = "sleep_switch"

\* Scheduler::sleep is called by thread t once after a registration: the
\* sleep counter rises by one on entry, and the thread leaves the
\* registration behind only through the switch that ends the call
SleepsOncePerRegistration(t) ==
    /\ sleep_counter'[t] > sleep_counter[t] =>
            /\ tpc[t] = "timer_scheduled"
            /\ sleep_counter'[t] = sleep_counter[t] + 1
            /\ \E p \in Cpus : ~InSchedulerSleep(p, t) /\ InSchedulerSleep(p, t)'
    /\ (tpc[t] = "timer_scheduled" /\ tpc'[t] # "timer_scheduled") =>
            \E p \in Cpus : InSchedulerSleep(p, t) /\ current'[p] # t
    /\ \A p \in Cpus :
            (InSchedulerSleep(p, t) /\ ~InSchedulerSleep(p, t)') =>
                tpc[t] = "timer_scheduled" /\ tpc'[t] # "timer_scheduled"

\* C35 -- timer registration under a full pending queue: _schedule_timer on
\* a full timer queue leaves the event, the queue and the timer semaphore
\* unchanged; Timer::sleep then yields the processor and retries while the
\* deadline is alive, and returns without having slept (sleep counter
\* unchanged) once the deadline has passed without a registration; a
\* successful registration is followed by exactly one Scheduler::sleep.
C35_FullTimerQueue ==
    /\ [](Len(timer_queue) <= TIMER_QUEUE_CAPACITY)
    /\ [][\A d \in SleepDurations : TimerSleep(SleeperCpu, d) => SleepTurn(SleeperCpu)]_vars
    /\ [][\A t \in Handles : SleepsOncePerRegistration(t)]_vars

\* C35 witness: a thread whose registration failed on the full queue has
\* yielded, has been dispatched again for its retry and finds its deadline
\* passed with the queue still full; it has not slept.
C35_Witness ==
    \E t \in Handles :
        /\ tpc[t] = "timer_retry" /\ current[SleeperCpu] = t /\ cpc[SleeperCpu] = "run"
        /\ Len(timer_queue) = TIMER_QUEUE_CAPACITY
        /\ timer_deadline[t] > 0 /\ is_expired(timer_deadline[t])
        /\ sleep_counter[t] = 0

\* thread t has called Scheduler::sleep and has been switched out by it
SleepCallDone(t) == timer_deadline[t] # 0 /\ tpc[t] # "timer_scheduled"

\* some processor has switched away from t and has not finished its retire
RetirePending(t) == \E p \in Cpus : retired[p] = t \/ retire_arg[p] = t

\* the wake of t has not begun
WakeNotBegun(t) == timer_events[t] > 0 /\ waker.thread # t

\* the wake of t has returned
WakeDone(t) == timer_events[t] = 0 /\ waker.thread # t

\* the run-queue entries of t and the processors it is current on
Placements(t) == Occurrences(t) + Cardinality({p \in Cpus : current[p] = t})

\* C36 -- sleep/wake race: Scheduler::sleep increments the caller's sleep
\* counter and switches it out, after which, absent a wake, the thread is in
\* no run queue and has QUEUED clear; and in every interleaving of one
\* ThreadHandle::wake with that sleep and the retire of the sleeping
\* thread, the thread ends up runnable and enqueued exactly once: the
\* wake-up is not lost and the handle is not enqueued twice.
C36_SleepWakeRace ==
    \A t \in Handles :
        /\ Occurrences(t) <= 1
        /\ (SleepCallDone(t) /\ ~RetirePending(t) /\ WakeNotBegun(t)) =>
                /\ sleep_counter[t] = 1
                /\ QUEUED \notin attribute[t]
                /\ Placements(t) = 0
        /\ (SleepCallDone(t) /\ ~RetirePending(t) /\ WakeDone(t)) =>
                /\ sleep_counter[t] = 0
                /\ QUEUED \in attribute[t]
                /\ Placements(t) = 1

\* C36 witness: the sleeping thread has been switched out and woken, and
\* the waker and the retiring processor both stand before their
\* test_and_set(QUEUED) on it.
C36_Witness ==
    \E t \in Handles : \E p \in Cpus :
        /\ SleepCallDone(t) /\ sleep_counter[t] = 0
        /\ cpc[p] = "retire_test_and_set" /\ retire_arg[p] = t
        /\ waker = [thread |-> t, step |-> "test_and_set"]
        /\ QUEUED \notin attribute[t]

\* the step is one sample of the statistics thread
IsStatisticsSample == \E usage \in UsageSamples : StatisticsSample(usage)

\* the transitions of SCHEDULER_STATE: Disabled -> Normal by Scheduler::start,
\* Normal <-> FullThrottle by a sample of the statistics thread
StateTransition ==
    scheduler_state' # scheduler_state =>
        \/ scheduler_state = "Disabled" /\ scheduler_state' = "Normal" /\ Start
        \/ /\ scheduler_state = "Normal" /\ scheduler_state' = "FullThrottle"
           /\ IsStatisticsSample
        \/ /\ scheduler_state = "FullThrottle" /\ scheduler_state' = "Normal"
           /\ IsStatisticsSample

\* while the state is Disabled, Scheduler::reschedule and Scheduler::freeze
\* have no effect on any processor
DisabledIsInert ==
    scheduler_state = "Disabled" =>
        /\ ~ENABLED Freeze
        /\ \A p \in Cpus : ~ENABLED RescheduleCall(p)
        /\ ~is_frozen
        /\ \A p \in Cpus : current[p] = idle(p)
        /\ AllQueued = <<>>

\* C37 -- scheduler state machine: the state starts Disabled and leaves it
\* once, Disabled -> Normal at start; no later step writes Disabled; the
\* only transitions afterwards are Normal <-> FullThrottle made by the
\* statistics thread, at most one per sample; while the state is Disabled
\* reschedule and freeze change nothing.
C37_StateMachine ==
    /\ scheduler_state = "Disabled"
    /\ [][StateTransition]_vars
    /\ [](scheduler_state \in {"Disabled", "Normal", "FullThrottle"})
    /\ []DisabledIsInert

\* C37 witness: the state has gone Disabled -> Normal -> FullThrottle, the
\* system has been frozen and a processor runs a thread it has dispatched.
C37_Witness ==
    /\ scheduler_state = "FullThrottle"
    /\ is_frozen
    /\ \E p \in Cpus : current[p] # idle(p)

\* ---------------------------------------------------------------------------
\* C38: a sample of the statistics thread stores for every thread the load
\* min(1000, raw * 1_000_000 / actual), resets the thread's raw counter to 0,
\* publishes as usage_total the sum of the loads of the non-Idle threads clamped
\* to num_cpu * 1000, and as usage_per_cpu that sum divided by num_cpu clamped
\* to 1000.
AtMost(n, limit) == IF n < limit THEN n ELSE limit

\* the loads stored for the threads of the registry that are not Idle threads
NonIdleLoads ==
    SumLoads(thread_load, thread_pool)
        - SumLoads(thread_load, {t \in thread_pool : priority[t] = Priority_Idle})

\* what a sample publishes from the loads it stored
AggregatesPublished ==
    /\ \A t \in thread_pool : thread_load'[t] <= 1000 /\ thread_load0'[t] = 0
    /\ usage_total' = AtMost(NonIdleLoads', NumCpus * 1000)
    /\ usage_per_cpu' = AtMost(NonIdleLoads' \div NumCpus, 1000)

C38_LoadClamps ==
    [][\A actual \in 1..MaxInterval :
          StatisticsLoads(actual) =>
              /\ \A t \in thread_pool :
                    thread_load'[t] =
                        AtMost((thread_load0[t] * 1000000) \div actual, 1000)
              /\ AggregatesPublished]_vars

\* C38, amended: the stored load is the raw counter in thousandths of the
\* measured interval, min(1000, raw * 1000 / actual); the rest as claimed.
C38_LoadClampsPerMille ==
    [][\A actual \in 1..MaxInterval :
          StatisticsLoads(actual) =>
              /\ \A t \in thread_pool :
                    thread_load'[t] = AtMost((thread_load0[t] * 1000) \div actual, 1000)
              /\ AggregatesPublished]_vars

\* a sample has been taken in which both clamps cut: the non-Idle loads sum to
\* more than num_cpu * 1000 and an Idle thread has a load of its own
C38_Witness ==
    /\ NonIdleLoads > NumCpus * 1000
    /\ usage_total = NumCpus * 1000
    /\ usage_per_cpu = 1000
    /\ \E t \in thread_pool : priority[t] = Priority_Idle /\ thread_load[t] > 0
    /\ \A t \in thread_pool : thread_load0[t] = 0

\* the processors whose current thread is t
RunsOn(t) == {p \in Cpus : current[p] = t}

\* the handle in the retired slot of processor p is in no run queue and is not
\* the current thread of another processor
SlotIsExclusive(p) ==
    retired[p] # None =>
        /\ Occurrences(retired[p]) = 0
        /\ RunsOn(retired[p]) \subseteq {p}

\* C39 -- a thread never runs in two places at once: a thread handle is the
\* current thread of at most one processor, and a handle in a processor's
\* retired slot (set by the switch, taken by _switch_context_after) is in no run
\* queue and is not the current thread of any other processor, under every
\* interleaving of reschedule, sleep, yield and wake.
C39_NoDoubleRun ==
    /\ \A t \in Handles : Cardinality(RunsOn(t)) <= 1
    /\ \A p \in Cpus : SlotIsExclusive(p)

\* a thread that was switched out is still in the retired slot of its processor
\* while the waker is in Scheduler::add for it and another processor runs a
\* thread of its own
C39_Witness ==
    \E p \in Cpus :
        /\ retired[p] # None
        /\ priority[retired[p]] # Priority_Idle
        /\ waker.thread = retired[p] /\ waker.step = "test_and_set"
        /\ \E q \in Cpus \ {p} : priority[current[q]] # Priority_Idle

\* t is a thread of the registry that is to run: not Idle, not ZOMBIE, not asleep
Runnable(t) ==
    /\ t \in thread_pool
    /\ priority[t] # Priority_Idle
    /\ ZOMBIE \notin attribute[t]
    /\ ~is_asleep(t)

\* a call of retire or add for t has begun and has not returned
BeingAdmitted(t) ==
    \/ waker.thread = t
    \/ \E p \in Cpus : retire_arg[p] = t

\* the places where t is: current on a processor, in a retired slot, in a run
\* queue
Places(t) ==
    Cardinality(RunsOn(t)) + Cardinality({p \in Cpus : retired[p] = t})
        + Occurrences(t)

\* between the calls of retire and add for it, a runnable thread is in one place
RunnableInOnePlace ==
    \A t \in Handles :
        (fault = "none" /\ Runnable(t) /\ ~BeingAdmitted(t)) => Places(t) = 1

\* a step takes at most one handle out of the run queues, and that handle is the
\* current thread of a processor after the step
DequeuedBecomesCurrent ==
    /\ Len(AllQueued') >= Len(AllQueued) - 1
    /\ \A t \in Handles :
          Occurrences(t)' < Occurrences(t) =>
              \E p \in Cpus : current[p] # t /\ current'[p] = t

\* C40 -- no runnable thread is lost: whenever no retire or add is in progress
\* for it, each thread of the registry that is not Idle, not ZOMBIE and not
\* asleep is in exactly one place - current on a processor, in a processor's
\* retired slot, or in a run queue; and every handle that reschedule, sleep or
\* yield dequeues becomes the current thread of the processor (one handle per
\* call, none dropped).
C40_NoRunnableLost == []RunnableInOnePlace /\ [][DequeuedBecomesCurrent]_vars

====
